---- MODULE Spec2Model ----
(***************************************************************************)
(* A model of github.com/pseudomuto/where: the filter lexer and grammar,   *)
(* the parse-time validator, the runtime Validator, the driver registry,   *)
(* the three reference drivers and the SQL builder behind Filter.ToSQL.    *)
(*                                                                         *)
(* Go strings are TLA+ strings (TLC evaluates Len, Head, Tail, SubSeq and  *)
(* \o on them).  A nil pointer, a nil error and a nil slice are Nil.  A    *)
(* *string is Nil or [s |-> "..."], a *float64 is Nil or [n |-> 18]; the   *)
(* same boxes are the elements of the params list ([]any).                 *)
(***************************************************************************)
EXTENDS Integers, Sequences, FiniteSets, TLC

(* The state.  drivers is the registry map of driver.go and driversMu its  *)
(* lock, goroutines the registry call each goroutine is running, validator *)
(* the runtime *Validator the caller holds (Nil before NewValidator),      *)
(* parser the *Parser the caller holds, filter the *Filter the caller      *)
(* holds (Nil for a nil pointer), and last the call made last with what it *)
(* returned.                                                               *)
VARIABLES drivers, validator, parser, filter, last, driversMu, goroutines

Nil == <<>>

-----------------------------------------------------------------------------
(* package strings, strconv and fmt, as far as the program uses them.      *)

LowerLetters == "abcdefghijklmnopqrstuvwxyz"
UpperLetters == "ABCDEFGHIJKLMNOPQRSTUVWXYZ"
DigitChars == "0123456789"

Chars(s) == { SubSeq(s, i, i) : i \in 1..Len(s) }

LowerSet == Chars(LowerLetters)
UpperSet == Chars(UpperLetters)
DigitSet == Chars(DigitChars)
SpaceSet == {" ", "\t", "\n", "\r"}

IndexIn(c, s) == CHOOSE i \in 1..Len(s) : SubSeq(s, i, i) = c

ToUpperChar(c) ==
  IF c \in LowerSet
    THEN LET i == IndexIn(c, LowerLetters) IN SubSeq(UpperLetters, i, i)
    ELSE c

ToLowerChar(c) ==
  IF c \in UpperSet
    THEN LET i == IndexIn(c, UpperLetters) IN SubSeq(LowerLetters, i, i)
    ELSE c

RECURSIVE ToUpper(_)
ToUpper(s) == IF s = "" THEN "" ELSE ToUpperChar(Head(s)) \o ToUpper(Tail(s))

RECURSIVE ToLower(_)
ToLower(s) == IF s = "" THEN "" ELSE ToLowerChar(Head(s)) \o ToLower(Tail(s))

HasPrefix(s, p) == Len(s) >= Len(p) /\ SubSeq(s, 1, Len(p)) = p

HasSuffix(s, p) == Len(s) >= Len(p) /\ SubSeq(s, Len(s) - Len(p) + 1, Len(s)) = p

Contains(s, sub) == \E i \in 1..(Len(s) - Len(sub) + 1) : SubSeq(s, i, i + Len(sub) - 1) = sub

RECURSIVE TrimLeft(_)
TrimLeft(s) == IF s # "" /\ Head(s) \in SpaceSet THEN TrimLeft(Tail(s)) ELSE s

RECURSIVE TrimRight(_)
TrimRight(s) ==
  IF s # "" /\ SubSeq(s, Len(s), Len(s)) \in SpaceSet
    THEN TrimRight(SubSeq(s, 1, Len(s) - 1))
    ELSE s

TrimSpace(s) == TrimRight(TrimLeft(s))

\* s[1 : len(s)-1]
StripEnds(s) == SubSeq(s, 2, Len(s) - 1)

RECURSIVE Join(_, _)
Join(parts, sep) ==
  IF Len(parts) = 0 THEN ""
  ELSE IF Len(parts) = 1 THEN parts[1]
  ELSE parts[1] \o sep \o Join(Tail(parts), sep)

\* strings.Split(s, sep) for a one-character sep
RECURSIVE SplitFrom(_, _, _)
SplitFrom(s, sep, cur) ==
  IF s = "" THEN <<cur>>
  ELSE IF Head(s) = sep THEN <<cur>> \o SplitFrom(Tail(s), sep, "")
  ELSE SplitFrom(Tail(s), sep, cur \o Head(s))

Split(s, sep) == SplitFrom(s, sep, "")

\* strings.ReplaceAll(s, old, new) for a one-character old
RECURSIVE ReplaceAll(_, _, _)
ReplaceAll(s, old, new) ==
  IF s = "" THEN ""
  ELSE (IF Head(s) = old THEN new ELSE Head(s)) \o ReplaceAll(Tail(s), old, new)

\* strconv.Itoa for n >= 0 (fmt's %d)
RECURSIVE Itoa(_)
Itoa(n) ==
  IF n < 10 THEN SubSeq(DigitChars, n + 1, n + 1)
  ELSE Itoa(n \div 10) \o SubSeq(DigitChars, (n % 10) + 1, (n % 10) + 1)

\* fmt's %q for the strings the program quotes
GoQuote(s) == "\"" \o ReplaceAll(ReplaceAll(s, "\\", "\\\\"), "\"", "\\\"") \o "\""

RECURSIVE ExtraArgs(_)
ExtraArgs(args) ==
  IF Len(args) = 0 THEN ""
  ELSE "string=" \o args[1] \o (IF Len(args) > 1 THEN ", " ELSE "") \o ExtraArgs(Tail(args))

\* fmt.Sprintf(format, args...) for string arguments and the verbs %s and %%:
\* a verb with no argument left prints %!s(MISSING), arguments no verb used
\* are appended as %!(EXTRA string=..., ...).
RECURSIVE Sprintf(_, _)
Sprintf(format, args) ==
  IF format = ""
    THEN (IF Len(args) = 0 THEN "" ELSE "%!(EXTRA " \o ExtraArgs(args) \o ")")
  ELSE IF Head(format) # "%"
    THEN Head(format) \o Sprintf(Tail(format), args)
  ELSE IF Len(format) = 1
    THEN "%!(NOVERB)" \o Sprintf("", args)
  ELSE IF SubSeq(format, 2, 2) = "%"
    THEN "%" \o Sprintf(SubSeq(format, 3, Len(format)), args)
  ELSE IF SubSeq(format, 2, 2) = "s"
    THEN (IF Len(args) = 0 THEN "%!s(MISSING)" ELSE args[1])
         \o Sprintf(SubSeq(format, 3, Len(format)), IF Len(args) = 0 THEN args ELSE Tail(args))
  ELSE "%!" \o SubSeq(format, 2, 2) \o "(" \o
         (IF Len(args) = 0 THEN "MISSING" ELSE "string=" \o args[1]) \o ")"
         \o Sprintf(SubSeq(format, 3, Len(format)), IF Len(args) = 0 THEN args ELSE Tail(args))

-----------------------------------------------------------------------------
(* The driver registry (driver.go) and the reference drivers.              *)

\* U+0060, the backtick: SANY's lexer accepts no backtick inside a string, so
\* the model writes the character as a caret, which no rule of the lexer and
\* no input of the model uses otherwise.
Backtick == "^"

\* The nil Driver.
NilDriver == "<nil>"

PostgreSQLDriver == "postgres"
MySQLDriver == "mysql"
ClickHouseDriver == "clickhouse"

\* Drivers a program registers beside the reference ones.  Each embeds a
\* reference driver (embeds) and overrides some of its methods: name is what
\* Name() returns, operators the reference driver whose operator table
\* TranslateOperator answers with, unsupported the operators it reports as
\* not supported, texts the operators it translates to a text of its own, and
\* placeholder what Placeholder returns: "?", or a mark followed by the
\* position.
CustomDrivers ==
  [ tidb |-> [name |-> "tidb", operators |-> MySQLDriver, unsupported |-> {}, texts |-> <<>>,
              embeds |-> ClickHouseDriver, placeholder |-> "?"],
    mysqlnative |-> [name |-> "mysql", operators |-> ClickHouseDriver, unsupported |-> {},
                     texts |-> <<>>, embeds |-> ClickHouseDriver, placeholder |-> "?"],
    strict |-> [name |-> "strict", operators |-> ClickHouseDriver,
                unsupported |-> {"=", "!=", "<", "BETWEEN", "NOT BETWEEN", "IN", "IS NULL"},
                texts |-> (">" :> "GT") @@ ("NOT IN" :> "NOT ANY") @@ ("IS NOT NULL" :> "NOTNULL"),
                embeds |-> ClickHouseDriver, placeholder |-> "?"],
    nolike |-> [name |-> "nolike", operators |-> ClickHouseDriver,
                unsupported |-> {"LIKE", "NOT ILIKE"}, texts |-> ("ILIKE" :> "~~*"),
                embeds |-> ClickHouseDriver, placeholder |-> "?"],
    mysqlmarked |-> [name |-> "mysql", operators |-> MySQLDriver, unsupported |-> {},
                     texts |-> <<>>, embeds |-> MySQLDriver, placeholder |-> "@"],
    clickhousemarked |-> [name |-> "clickhouse", operators |-> ClickHouseDriver,
                          unsupported |-> {}, texts |-> <<>>, embeds |-> ClickHouseDriver,
                          placeholder |-> "@"] ]

IsCustomDriver(d) == d \in DOMAIN CustomDrivers

\* Driver.Name()
DriverName(d) == IF IsCustomDriver(d) THEN CustomDrivers[d].name ELSE d

\* The reference driver whose methods a driver answers with where it has
\* none of its own.
Embedded(d) == IF IsCustomDriver(d) THEN CustomDrivers[d].embeds ELSE d

\* The registry after the init() of the three driver packages has run.
InitialDrivers ==
  [n \in {"postgres", "postgresql", "pg", "mysql", "mariadb", "clickhouse", "ch"} |->
     IF n \in {"postgres", "postgresql", "pg"} THEN PostgreSQLDriver
     ELSE IF n \in {"mysql", "mariadb"} THEN MySQLDriver
     ELSE ClickHouseDriver]

GetDriver(reg, name) ==
  IF name \in DOMAIN reg
    THEN [driver |-> reg[name], err |-> Nil]
    ELSE [driver |-> NilDriver, err |-> <<"driver " \o GoQuote(name) \o " not registered">>]

PostgreSQLKeywords ==
  {"ALL", "ANALYSE", "ANALYZE", "AND", "ANY", "ARRAY", "AS", "ASC", "ASYMMETRIC",
   "AUTHORIZATION", "BETWEEN", "BINARY", "BOTH", "CASE", "CAST", "CHECK", "COLLATE",
   "COLLATION", "COLUMN", "CONCURRENTLY", "CONSTRAINT", "CREATE", "CROSS",
   "CURRENT_CATALOG", "CURRENT_DATE", "CURRENT_ROLE", "CURRENT_SCHEMA", "CURRENT_TIME",
   "CURRENT_TIMESTAMP", "CURRENT_USER", "DEFAULT", "DEFERRABLE", "DESC", "DISTINCT",
   "DO", "ELSE", "END", "EXCEPT", "FALSE", "FETCH", "FOR", "FOREIGN", "FROM",
   "GRANT", "GROUP", "HAVING", "IN", "INITIALLY", "INNER", "INTERSECT", "INTO",
   "IS", "JOIN", "LATERAL", "LEADING", "LEFT", "LIKE", "LIMIT", "LOCALTIME",
   "LOCALTIMESTAMP", "NATURAL", "NOT", "NULL", "OFFSET", "ON", "ONLY", "OR",
   "ORDER", "OUTER", "OVERLAPS", "PLACING", "PRIMARY", "REFERENCES", "RETURNING",
   "RIGHT", "SELECT", "SESSION_USER", "SIMILAR", "SOME", "SYMMETRIC", "TABLE",
   "TABLESAMPLE", "THEN", "TO", "TRAILING", "TRUE", "UNION", "UNIQUE", "USER",
   "USING", "VARIADIC", "VERBOSE", "WHEN", "WHERE", "WINDOW", "WITH"}

ClickHouseKeywords ==
  {"ALL", "ALTER", "AND", "ANY", "AS", "ASC", "BETWEEN", "BY", "CASE", "CAST",
   "CREATE", "CROSS", "DELETE", "DESC", "DISTINCT", "DROP", "ELSE", "END",
   "EXISTS", "FROM", "FULL", "GROUP", "HAVING", "IN", "INNER", "INSERT",
   "INTO", "IS", "JOIN", "LEFT", "LIKE", "LIMIT", "NOT", "NULL", "ON",
   "OR", "ORDER", "OUTER", "RIGHT", "SELECT", "SET", "TABLE", "THEN",
   "UNION", "UPDATE", "USING", "VALUES", "WHEN", "WHERE", "WITH",
   "ARRAY", "CLUSTER", "DATABASE", "DICTIONARY", "ENGINE", "FINAL", "FORMAT", "GLOBAL",
   "ILIKE", "MATERIALIZED", "PARTITION", "PREWHERE", "PRIMARY", "SAMPLE",
   "SETTINGS", "SYSTEM", "TEMPORARY", "TTL", "WATCH",
   "DATE", "ID", "TIMESTAMP", "USER"}

\* The MySQL keyword table is not among the source files; these are the words
\* the MySQL tests expect to be quoted, with the core SQL words every table has.
MySQLKeywords ==
  {"ALL", "AND", "AS", "ASC", "BETWEEN", "BY", "CASE", "CREATE", "DELETE", "DESC",
   "DISTINCT", "DROP", "FROM", "GROUP", "HAVING", "IN", "INSERT", "INTO", "IS",
   "JOIN", "KEY", "LIKE", "LIMIT", "NOT", "NULL", "ON", "OR", "ORDER", "SELECT",
   "SET", "TABLE", "UNION", "UPDATE", "USER", "VALUES", "WHERE"}

Keywords(d) ==
  IF Embedded(d) = PostgreSQLDriver THEN PostgreSQLKeywords
  ELSE IF Embedded(d) = MySQLDriver THEN MySQLKeywords
  ELSE ClickHouseKeywords

\* A keyword test that compares the word as written.
IsReservedKeywordAsWritten(d, word) == word \in Keywords(d)

IsReservedKeyword(d, word) == ToUpper(word) \in Keywords(d)

IdentCharSet == LowerSet \cup UpperSet \cup DigitSet \cup {"_"}

needsQuoting(d, name) ==
  IF IsReservedKeyword(d, name) THEN TRUE
  ELSE IF name = "" THEN FALSE
  ELSE IF Head(name) \in DigitSet THEN TRUE
  ELSE \E c \in Chars(name) : c \notin IdentCharSet

\* The quote character of the dialect and the foreign one its QuoteIdentifier strips.
QuoteChar(d) == IF Embedded(d) = PostgreSQLDriver THEN "\"" ELSE Backtick

ForeignQuoteChar(d) == IF Embedded(d) = PostgreSQLDriver THEN Backtick ELSE "\""

quoteSimpleIdentifier(d, name) ==
  IF needsQuoting(d, name)
    THEN QuoteChar(d) \o ReplaceAll(name, QuoteChar(d), QuoteChar(d) \o QuoteChar(d)) \o QuoteChar(d)
    ELSE name

RECURSIVE quoteParts(_, _)
quoteParts(d, parts) ==
  IF Len(parts) = 0 THEN <<>>
  ELSE <<quoteSimpleIdentifier(d, parts[1])>> \o quoteParts(d, Tail(parts))

\* name[1 : len(name)-1] on a one-character name: slice bounds out of range.
QuoteIdentifierPanics(d, name0) ==
  LET name == TrimSpace(name0) IN
    /\ name0 # ""
    /\ ~(HasPrefix(name, QuoteChar(d)) /\ HasSuffix(name, QuoteChar(d)))
    /\ name = ForeignQuoteChar(d)

QuoteIdentifier(d, name0) ==
  IF name0 = "" THEN name0
  ELSE
    LET trimmed == TrimSpace(name0) IN
    IF HasPrefix(trimmed, QuoteChar(d)) /\ HasSuffix(trimmed, QuoteChar(d)) THEN trimmed
    ELSE
      LET name == IF HasPrefix(trimmed, ForeignQuoteChar(d)) /\ HasSuffix(trimmed, ForeignQuoteChar(d))
                    THEN StripEnds(trimmed)
                    ELSE trimmed
      IN IF Contains(name, ".")
           THEN Join(quoteParts(d, Split(name, ".")), ".")
           ELSE quoteSimpleIdentifier(d, name)

Placeholder(d, position) ==
  IF IsCustomDriver(d)
    THEN (IF CustomDrivers[d].placeholder = "?" THEN "?"
          ELSE CustomDrivers[d].placeholder \o Itoa(position))
  ELSE IF d = PostgreSQLDriver THEN "$" \o Itoa(position)
  ELSE "?"

\* TranslateOperator of the three reference drivers.
ReferenceTranslateOperator(d, op) ==
  LET upperOp == ToUpper(op) IN
    IF upperOp \in {"=", "!=", "<>", "<", ">", "<=", ">="} THEN [text |-> op, ok |-> TRUE]
    ELSE IF upperOp \in {"LIKE", "NOT LIKE"} THEN [text |-> upperOp, ok |-> TRUE]
    ELSE IF upperOp = "ILIKE"
      THEN [text |-> IF d = MySQLDriver THEN "LIKE" ELSE upperOp, ok |-> TRUE]
    ELSE IF upperOp = "NOT ILIKE"
      THEN [text |-> IF d = MySQLDriver THEN "NOT LIKE" ELSE upperOp, ok |-> TRUE]
    ELSE IF upperOp \in {"IN", "NOT IN", "IS NULL", "IS NOT NULL", "BETWEEN", "NOT BETWEEN"}
      THEN [text |-> upperOp, ok |-> TRUE]
    ELSE [text |-> "", ok |-> FALSE]

\* driver.TranslateOperator(op), the method of whichever driver d is.
TranslateOperator(d, op) ==
  IF ~ IsCustomDriver(d) THEN ReferenceTranslateOperator(d, op)
  ELSE IF ToUpper(op) \in CustomDrivers[d].unsupported THEN [text |-> "", ok |-> FALSE]
  ELSE IF ToUpper(op) \in DOMAIN CustomDrivers[d].texts
    THEN [text |-> CustomDrivers[d].texts[ToUpper(op)], ok |-> TRUE]
  ELSE ReferenceTranslateOperator(CustomDrivers[d].operators, op)

RECURSIVE buildPlaceholders(_)
buildPlaceholders(count) ==
  IF count <= 0 THEN ""
  ELSE IF count = 1 THEN "%s"
  ELSE "%s, " \o buildPlaceholders(count - 1)

Unsupported == [template |-> "", ok |-> FALSE]

Supported(t) == [template |-> t, ok |-> TRUE]

\* The rows of the drivers' translation tables for NOW, LOWER, UPPER, CONCAT
\* and SUBSTRING; the names the model's inputs use beside these (BAD) are in
\* no table of any driver.
PostgreSQLTranslateFunction(name, argCount) ==
  LET upperName == ToUpper(name) IN
    IF upperName = "NOW" THEN Supported(upperName \o "()")
    ELSE IF upperName \in {"LOWER", "UPPER"}
      THEN (IF argCount = 1 THEN Supported(upperName \o "(%s)") ELSE Unsupported)
    ELSE IF upperName = "CONCAT"
      THEN (IF argCount >= 2
              THEN Supported(upperName \o "(" \o buildPlaceholders(argCount) \o ")")
              ELSE Unsupported)
    ELSE IF upperName = "SUBSTRING"
      THEN (IF argCount = 2 THEN Supported("SUBSTRING(%s FROM %s)")
            ELSE IF argCount = 3 THEN Supported("SUBSTRING(%s FROM %s FOR %s)")
            ELSE Unsupported)
    ELSE Unsupported

MySQLTranslateFunction(name, argCount) ==
  LET upperName == ToUpper(name) IN
    IF upperName = "NOW" THEN Supported(upperName \o "()")
    ELSE IF upperName \in {"LOWER", "UPPER"}
      THEN (IF argCount = 1 THEN Supported(upperName \o "(%s)") ELSE Unsupported)
    ELSE IF upperName = "CONCAT"
      THEN (IF argCount >= 2
              THEN Supported(upperName \o "(" \o buildPlaceholders(argCount) \o ")")
              ELSE Unsupported)
    ELSE IF upperName = "SUBSTRING"
      THEN (IF argCount = 2 \/ argCount = 3
              THEN Supported(upperName \o "(" \o buildPlaceholders(argCount) \o ")")
              ELSE Unsupported)
    ELSE Unsupported

ClickHouseTranslateFunction(name, argCount) ==
  LET upperName == ToUpper(name) IN
    IF upperName = "NOW" THEN Supported(upperName \o "()")
    ELSE IF upperName \in {"LOWER", "UPPER"} THEN Supported(upperName \o "(%s)")
    ELSE IF upperName = "SUBSTRING"
      THEN (IF argCount = 2 THEN Supported("substring(%s, %s)")
            ELSE IF argCount = 3 THEN Supported("substring(%s, %s, %s)")
            ELSE Unsupported)
    ELSE IF upperName = "CONCAT"
      THEN Supported("concat(" \o buildPlaceholders(argCount) \o ")")
    ELSE Unsupported

TranslateFunction(d, name, argCount) ==
  IF Embedded(d) = PostgreSQLDriver THEN PostgreSQLTranslateFunction(name, argCount)
  ELSE IF Embedded(d) = MySQLDriver THEN MySQLTranslateFunction(name, argCount)
  ELSE ClickHouseTranslateFunction(name, argCount)

-----------------------------------------------------------------------------
(* The runtime Validator (validator.go).  A map[string]bool that only ever *)
(* stores true is the set of its keys.                                     *)

NewValidator == [allowedFields |-> {}, allowedFunctions |-> {}, allowAll |-> FALSE]

ValidatorAllowAll(v) == [v EXCEPT !.allowAll = TRUE]

\* A faulty variant of AllowFields: the names are stored as they are written.
ValidatorAllowFieldsAsWritten(v, fields) ==
  [v EXCEPT !.allowedFields = @ \cup { fields[i] : i \in 1..Len(fields) }]

ValidatorAllowFields(v, fields) ==
  [v EXCEPT !.allowedFields = @ \cup { ToLower(fields[i]) : i \in 1..Len(fields) }]

ValidatorAllowFunctions(v, functions) ==
  [v EXCEPT !.allowedFunctions = @ \cup { ToUpper(functions[i]) : i \in 1..Len(functions) }]

IsFieldAllowed(v, field) ==
  IF v.allowAll THEN TRUE ELSE ToLower(field) \in v.allowedFields

IsFunctionAllowed(v, function) ==
  IF v.allowAll THEN TRUE ELSE ToUpper(function) \in v.allowedFunctions

-----------------------------------------------------------------------------
(* The SQL builder (sql_builder.go).  b is the *SQLBuilder: its driver,    *)
(* its params and its validator, with the log of the calls it has made to  *)
(* the driver and the validator.  Every build function returns the SQL,    *)
(* the error and the builder as the call leaves it.                        *)

Ret(sql, err, b) == [sql |-> sql, err |-> err, b |-> b]

Fail(msg, b) == Ret("", <<msg>>, b)

\* A runtime panic leaves the call without a return value.
Panic(msg, b) == Ret("", <<"panic", msg>>, b)

IsPanic(err) == Len(err) = 2

Called(b, fn, arg, n) == [b EXCEPT !.calls = Append(@, [fn |-> fn, arg |-> arg, n |-> n])]

\* BooleanLit.Value (grammar.go)
BooleanLitValue(boolean) == boolean.True

\* LiteralValue.Value (grammar.go): a string with its two quotes stripped, a
\* number, a boolean, and Nil for NULL.
LiteralValueValue(lit) ==
  IF lit.String # Nil
    THEN [s |-> IF Len(lit.String.s) >= 2 THEN StripEnds(lit.String.s) ELSE lit.String.s]
  ELSE IF lit.Number # Nil THEN [n |-> lit.Number.n]
  ELSE IF lit.Boolean # Nil THEN [b |-> BooleanLitValue(lit.Boolean)]
  ELSE Nil

\* CompareOperator.String (grammar.go)
CompareOperatorString(op) ==
  IF op.Type = "Equal" THEN "="
  ELSE IF op.Type = "NotEqual" THEN "!="
  ELSE IF op.Type = "Less" THEN "<"
  ELSE IF op.Type = "Greater" THEN ">"
  ELSE IF op.Type = "LessOrEqual" THEN "<="
  ELSE IF op.Type = "GreaterOrEqual" THEN ">="
  ELSE op.Type

\* Faulty variants of buildLiteralValue, which the properties of ToSQL must
\* tell from it: the literal's text written into the SQL, a Boolean literal
\* bound as a parameter, and placeholder positions counted from zero.
buildLiteralValueInline(b, lit) ==
  IF lit.Null THEN Ret("NULL", Nil, b)
  ELSE IF lit.Boolean # Nil
    THEN Ret(IF BooleanLitValue(lit.Boolean) THEN "TRUE" ELSE "FALSE", Nil, b)
  ELSE IF lit.Number # Nil THEN Ret(Itoa(lit.Number.n), Nil, b)
  ELSE IF lit.String # Nil THEN Ret(lit.String.s, Nil, b)
  ELSE Fail("unrecognized literal type", b)

buildLiteralValueBooleanParam(b, lit) ==
  IF lit.Null THEN Ret("NULL", Nil, b)
  ELSE IF lit.Number # Nil \/ lit.String # Nil \/ lit.Boolean # Nil
    THEN LET value == LiteralValueValue(lit)
             b1 == [b EXCEPT !.params = Append(@, value)]
         IN Ret(Placeholder(b.driver, Len(b1.params)), Nil,
                Called(b1, "Placeholder", "", Len(b1.params)))
  ELSE Fail("unrecognized literal type", b)

buildLiteralValueZeroBased(b, lit) ==
  IF lit.Null THEN Ret("NULL", Nil, b)
  ELSE IF lit.Boolean # Nil
    THEN Ret(IF BooleanLitValue(lit.Boolean) THEN "TRUE" ELSE "FALSE", Nil, b)
  ELSE IF lit.Number # Nil \/ lit.String # Nil
    THEN LET b1 == [b EXCEPT !.params = Append(@, LiteralValueValue(lit))]
         IN Ret(Placeholder(b.driver, Len(b.params)), Nil,
                Called(b1, "Placeholder", "", Len(b.params)))
  ELSE Fail("unrecognized literal type", b)

buildLiteralValue(b, lit) ==
  IF lit.Null THEN Ret("NULL", Nil, b)
  ELSE IF lit.Boolean # Nil
    THEN Ret(IF BooleanLitValue(lit.Boolean) THEN "TRUE" ELSE "FALSE", Nil, b)
  ELSE IF lit.Number # Nil
    THEN LET b1 == [b EXCEPT !.params = Append(@, [n |-> lit.Number.n])]
         IN Ret(Placeholder(b.driver, Len(b1.params)), Nil,
                Called(b1, "Placeholder", "", Len(b1.params)))
  ELSE IF lit.String # Nil
    THEN LET str0 == lit.String.s
             str == IF Len(str0) >= 2
                       /\ \/ Head(str0) = "'" /\ SubSeq(str0, Len(str0), Len(str0)) = "'"
                          \/ Head(str0) = "\"" /\ SubSeq(str0, Len(str0), Len(str0)) = "\""
                      THEN StripEnds(str0)
                      ELSE str0
             b1 == [b EXCEPT !.params = Append(@, [s |-> str])]
         IN Ret(Placeholder(b.driver, Len(b1.params)), Nil,
                Called(b1, "Placeholder", "", Len(b1.params)))
  ELSE Fail("unrecognized literal type", b)

\* The loop of buildFieldRef over field.Parts.
RECURSIVE buildFieldParts(_, _, _)
buildFieldParts(b, parts, done) ==
  IF Len(parts) = 0 THEN Ret(Join(done, "."), Nil, b)
  ELSE
    LET trimmed == TrimSpace(parts[1])
        quoted(q) == HasPrefix(trimmed, q) /\ HasSuffix(trimmed, q)
        strips == quoted(Backtick) \/ quoted("\"")
        part == IF strips THEN StripEnds(trimmed) ELSE trimmed
    IN IF strips /\ Len(trimmed) < 2
         THEN Panic("slice bounds out of range", b)
       ELSE IF QuoteIdentifierPanics(b.driver, part)
         THEN Panic("slice bounds out of range", Called(b, "QuoteIdentifier", part, 0))
       ELSE buildFieldParts(Called(b, "QuoteIdentifier", part, 0), Tail(parts),
                            Append(done, QuoteIdentifier(b.driver, part)))

\* A faulty variant of buildFieldRef: the validator is not consulted.
buildFieldRefUnchecked(b, field) ==
  IF Len(field.Parts) = 0 THEN Fail("empty field", b)
  ELSE buildFieldParts(b, field.Parts, <<>>)

buildFieldRef(b, field) ==
  IF Len(field.Parts) = 0 THEN Fail("empty field", b)
  ELSE
    LET name == Join(field.Parts, ".")
        b1 == IF b.validator # Nil THEN Called(b, "IsFieldAllowed", name, 0) ELSE b
    IN IF b.validator # Nil /\ ~IsFieldAllowed(b.validator, name)
         THEN Fail("field " \o GoQuote(name) \o " is not allowed", b1)
         ELSE buildFieldParts(b1, field.Parts, <<>>)

RECURSIVE buildExpression(_, _)
RECURSIVE buildTerm(_, _)
RECURSIVE buildFactor(_, _)
RECURSIVE buildPredicate(_, _)
RECURSIVE buildOperation(_, _, _)
RECURSIVE buildCompare(_, _, _)
RECURSIVE buildLike(_, _, _)
RECURSIVE buildBetween(_, _, _)
RECURSIVE buildIn(_, _, _)
RECURSIVE buildValue(_, _)
RECURSIVE buildFunctionCall(_, _)
RECURSIVE buildTermParts(_, _, _)
RECURSIVE buildFactorParts(_, _, _)
RECURSIVE buildValueItems(_, _, _)

\* A result with the strings rendered so far in place of one SQL string.
Parts(parts, err, b) == [parts |-> parts, err |-> err, b |-> b]

\* K applied to the result r of a call: the rest of a function after the call.
Bind(r, K(_)) == K(r)

\* for i, term := range expr.Or
buildTermParts(b, terms, parts) ==
  IF Len(terms) = 0 THEN Parts(parts, Nil, b)
  ELSE Bind(buildTerm(b, terms[1]), LAMBDA r :
         IF r.err # Nil THEN Parts(parts, r.err, r.b)
         ELSE buildTermParts(r.b, Tail(terms), Append(parts, r.sql)))

\* for i, factor := range term.And
buildFactorParts(b, factors, parts) ==
  IF Len(factors) = 0 THEN Parts(parts, Nil, b)
  ELSE Bind(buildFactor(b, factors[1]), LAMBDA r :
         IF r.err # Nil THEN Parts(parts, r.err, r.b)
         ELSE buildFactorParts(r.b, Tail(factors), Append(parts, r.sql)))

\* for i, item := range in.Values, and for i, arg := range fn.Args
buildValueItems(b, values, items) ==
  IF Len(values) = 0 THEN Parts(items, Nil, b)
  ELSE Bind(buildValue(b, values[1]), LAMBDA r :
         IF r.err # Nil THEN Parts(items, r.err, r.b)
         ELSE buildValueItems(r.b, Tail(values), Append(items, r.sql)))

\* Faulty variants of buildExpression and buildTerm: several terms joined
\* without the enclosing parentheses, and a single factor given parentheses.
buildExpressionBare(b, expr) ==
  IF expr = Nil \/ Len(expr.Or) = 0 THEN Fail("empty expression", b)
  ELSE IF Len(expr.Or) = 1 THEN buildTerm(b, expr.Or[1])
  ELSE Bind(buildTermParts(b, expr.Or, <<>>), LAMBDA r :
         IF r.err # Nil THEN Ret("", r.err, r.b)
         ELSE Ret(Join(r.parts, " OR "), Nil, r.b))

buildTermAlwaysWrapped(b, term) ==
  IF term = Nil \/ Len(term.And) = 0 THEN Fail("empty term", b)
  ELSE Bind(buildFactorParts(b, term.And, <<>>), LAMBDA r :
         IF r.err # Nil THEN Ret("", r.err, r.b)
         ELSE Ret("(" \o Join(r.parts, " AND ") \o ")", Nil, r.b))

buildExpression(b, expr) ==
  IF expr = Nil \/ Len(expr.Or) = 0 THEN Fail("empty expression", b)
  ELSE IF Len(expr.Or) = 1 THEN buildTerm(b, expr.Or[1])
  ELSE Bind(buildTermParts(b, expr.Or, <<>>), LAMBDA r :
         IF r.err # Nil THEN Ret("", r.err, r.b)
         ELSE Ret("(" \o Join(r.parts, " OR ") \o ")", Nil, r.b))

buildTerm(b, term) ==
  IF term = Nil \/ Len(term.And) = 0 THEN Fail("empty term", b)
  ELSE IF Len(term.And) = 1 THEN buildFactor(b, term.And[1])
  ELSE Bind(buildFactorParts(b, term.And, <<>>), LAMBDA r :
         IF r.err # Nil THEN Ret("", r.err, r.b)
         ELSE Ret("(" \o Join(r.parts, " AND ") \o ")", Nil, r.b))

buildFactor(b, factor) ==
  IF factor = Nil THEN Fail("empty factor", b)
  ELSE IF factor.SubExpr = Nil /\ factor.Predicate = Nil THEN Fail("empty factor content", b)
  ELSE Bind(IF factor.SubExpr # Nil
              THEN buildExpression(b, factor.SubExpr)
              ELSE buildPredicate(b, factor.Predicate), LAMBDA r :
         IF r.err # Nil THEN Ret("", r.err, r.b)
         ELSE IF factor.Not THEN Ret("NOT (" \o r.sql \o ")", Nil, r.b)
         ELSE r)

buildPredicate(b, pred) ==
  IF pred = Nil THEN Fail("empty predicate", b)
  ELSE Bind(buildValue(b, pred.Left), LAMBDA left :
         IF left.err # Nil THEN Ret("", left.err, left.b)
         ELSE IF pred.Operation = Nil THEN Fail("predicate missing operation", left.b)
         ELSE buildOperation(left.b, left.sql, pred.Operation))

buildIsNull(b, leftVal, isNull) ==
  Ret(leftVal \o " " \o (IF isNull.Not THEN "IS NOT NULL" ELSE "IS NULL"), Nil, b)

buildOperation(b, leftVal, op) ==
  IF op = Nil THEN Fail("empty operation", b)
  ELSE IF op.Compare # Nil THEN buildCompare(b, leftVal, op.Compare)
  ELSE IF op.Like # Nil THEN buildLike(b, leftVal, op.Like)
  ELSE IF op.Between # Nil THEN buildBetween(b, leftVal, op.Between)
  ELSE IF op.In # Nil THEN buildIn(b, leftVal, op.In)
  ELSE IF op.IsNull # Nil THEN buildIsNull(b, leftVal, op.IsNull)
  ELSE Fail("unrecognized operation type", b)

\* A faulty variant of buildCompare: the operator is what the driver's
\* TranslateOperator answers, an error when it answers "not supported".
buildCompareTranslated(b, leftVal, comp) ==
  Bind(buildValue(b, comp.Right), LAMBDA right :
    IF right.err # Nil THEN Ret("", right.err, right.b)
    ELSE IF ~ TranslateOperator(b.driver, CompareOperatorString(comp.Operator)).ok
      THEN Fail("operator " \o CompareOperatorString(comp.Operator)
                \o " not supported by driver " \o DriverName(b.driver), right.b)
    ELSE Ret(leftVal \o " "
             \o TranslateOperator(b.driver, CompareOperatorString(comp.Operator)).text
             \o " " \o right.sql, Nil, right.b))

buildCompare(b, leftVal, comp) ==
  Bind(buildValue(b, comp.Right), LAMBDA right :
    IF right.err # Nil THEN Ret("", right.err, right.b)
    ELSE Ret(leftVal \o " " \o CompareOperatorString(comp.Operator) \o " " \o right.sql,
             Nil, right.b))

\* buildLike once like.Pattern is rendered.
\* A faulty variant of buildLikeOperator: no LOWER() around the operands of
\* a MySQL ILIKE.
buildLikeOperatorNative(b, leftVal, like, pattern) ==
  LET operator == (IF like.Not THEN "NOT " ELSE "") \o ToUpper(like.Type.Operator)
      translated == TranslateOperator(b.driver, operator)
      b1 == Called(b, "TranslateOperator", operator, 0)
  IN IF ~translated.ok
       THEN Fail("operator " \o operator \o " not supported by driver " \o DriverName(b.driver), b1)
     ELSE Ret(leftVal \o " " \o translated.text \o " " \o pattern, Nil, b1)

buildLikeOperator(b, leftVal, like, pattern) ==
  LET operator == (IF like.Not THEN "NOT " ELSE "") \o ToUpper(like.Type.Operator)
      translated == TranslateOperator(b.driver, operator)
      b1 == Called(b, "TranslateOperator", operator, 0)
      lower == DriverName(b.driver) = "mysql" /\ Contains(ToUpper(like.Type.Operator), "ILIKE")
  IN IF ~translated.ok
       THEN Fail("operator " \o operator \o " not supported by driver " \o DriverName(b.driver), b1)
     ELSE Ret((IF lower THEN "LOWER(" \o leftVal \o ")" ELSE leftVal)
              \o " " \o translated.text \o " "
              \o (IF lower THEN "LOWER(" \o pattern \o ")" ELSE pattern),
              Nil, b1)

buildLike(b, leftVal, like) ==
  Bind(buildValue(b, like.Pattern), LAMBDA pattern :
    IF pattern.err # Nil THEN Ret("", pattern.err, pattern.b)
    ELSE buildLikeOperator(pattern.b, leftVal, like, pattern.sql))

\* A faulty variant of buildBetween: the upper bound is rendered before the
\* lower one, and written after it.
buildBetweenUpperFirst(b, leftVal, between) ==
  Bind(buildValue(b, between.Upper), LAMBDA upper :
    IF upper.err # Nil THEN Ret("", upper.err, upper.b)
    ELSE Bind(buildValue(upper.b, between.Lower), LAMBDA lower :
           IF lower.err # Nil THEN Ret("", lower.err, lower.b)
           ELSE Ret(leftVal \o " " \o (IF between.Not THEN "NOT BETWEEN" ELSE "BETWEEN")
                    \o " " \o lower.sql \o " AND " \o upper.sql, Nil, lower.b)))

buildBetween(b, leftVal, between) ==
  Bind(buildValue(b, between.Lower), LAMBDA lower :
    IF lower.err # Nil THEN Ret("", lower.err, lower.b)
    ELSE Bind(buildValue(lower.b, between.Upper), LAMBDA upper :
           IF upper.err # Nil THEN Ret("", upper.err, upper.b)
           ELSE Ret(leftVal \o " " \o (IF between.Not THEN "NOT BETWEEN" ELSE "BETWEEN")
                    \o " " \o lower.sql \o " AND " \o upper.sql, Nil, upper.b)))

buildIn(b, leftVal, in) ==
  IF Len(in.Values) = 0 THEN Fail("IN expression requires at least one value", b)
  ELSE Bind(buildValueItems(b, in.Values, <<>>), LAMBDA r :
         IF r.err # Nil THEN Ret("", r.err, r.b)
         ELSE Ret(leftVal \o " " \o (IF in.Not THEN "NOT IN" ELSE "IN")
                  \o " (" \o Join(r.parts, ", ") \o ")", Nil, r.b))

buildValue(b, val) ==
  IF val = Nil THEN Fail("nil value", b)
  ELSE IF val.Function # Nil THEN buildFunctionCall(b, val.Function)
  ELSE IF val.Field # Nil THEN buildFieldRef(b, val.Field)
  ELSE IF val.Literal # Nil THEN buildLiteralValue(b, val.Literal)
  ELSE IF val.SubExpr # Nil THEN buildExpression(b, val.SubExpr)
  ELSE Fail("unrecognized value type", b)

\* A faulty variant of buildFunctionCall: the driver translates the call
\* before the validator is asked about its name.
buildFunctionCallTranslateFirst(b, fn) ==
  LET t == TranslateFunction(b.driver, fn.Name, Len(fn.Args))
      b1 == Called(b, "TranslateFunction", fn.Name, Len(fn.Args))
      b2 == IF b.validator # Nil THEN Called(b1, "IsFunctionAllowed", fn.Name, 0) ELSE b1
  IN IF ~t.ok
       THEN Fail("function " \o GoQuote(fn.Name) \o " with " \o Itoa(Len(fn.Args))
                 \o " arguments not supported by driver " \o DriverName(b.driver), b1)
     ELSE IF b.validator # Nil /\ ~IsFunctionAllowed(b.validator, fn.Name)
       THEN Fail("function " \o GoQuote(fn.Name) \o " is not allowed", b2)
     ELSE IF Len(fn.Args) = 0 THEN Ret(t.template, Nil, b2)
     ELSE Bind(buildValueItems(b2, fn.Args, <<>>), LAMBDA args :
            IF args.err # Nil THEN Ret("", args.err, args.b)
            ELSE Ret(Sprintf(t.template, args.parts), Nil, args.b))

buildFunctionCall(b, fn) ==
  LET b1 == IF b.validator # Nil THEN Called(b, "IsFunctionAllowed", fn.Name, 0) ELSE b
      t == TranslateFunction(b.driver, fn.Name, Len(fn.Args))
      b2 == Called(b1, "TranslateFunction", fn.Name, Len(fn.Args))
  IN IF b.validator # Nil /\ ~IsFunctionAllowed(b.validator, fn.Name)
       THEN Fail("function " \o GoQuote(fn.Name) \o " is not allowed", b1)
     ELSE IF ~t.ok
       THEN Fail("function " \o GoQuote(fn.Name) \o " with " \o Itoa(Len(fn.Args))
                 \o " arguments not supported by driver " \o DriverName(b.driver), b2)
     ELSE IF Len(fn.Args) = 0 THEN Ret(t.template, Nil, b2)
     ELSE Bind(buildValueItems(b2, fn.Args, <<>>), LAMBDA args :
            IF args.err # Nil THEN Ret("", args.err, args.b)
            ELSE Ret(Sprintf(t.template, args.parts), Nil, args.b))

\* The nil []any that ToSQL returns beside an error: Go's nil slice is not
\* the empty list make([]any, 0) that a call with no literal returns.
NilSlice == [nil |-> TRUE]

\* Filter.ToSQL(driverName, options...): v is the validator WithValidator
\* installs, Nil with no option.  An err that IsPanic is a runtime panic: the
\* call returns nothing.
\* A faulty variant of ToSQL: on an error of the builder it hands back what
\* the builder had collected.
ToSQLPartial(reg, f, driverName, v) ==
  LET got == GetDriver(reg, driverName)
      builder == [driver |-> got.driver, params |-> <<>>, validator |-> v, calls |-> <<>>]
  IN IF got.err # Nil
       THEN [sql |-> "", params |-> NilSlice,
             err |-> <<"failed to get driver " \o GoQuote(driverName) \o ": " \o got.err[1]>>,
             calls |-> <<>>]
     ELSE IF f = Nil \/ f.Expression = Nil
       THEN [sql |-> "", params |-> NilSlice, err |-> <<"empty filter">>, calls |-> <<>>]
     ELSE Bind(buildExpression(builder, f.Expression), LAMBDA r :
            [sql |-> r.sql, params |-> r.b.params, err |-> r.err, calls |-> r.b.calls])

\* A faulty variant of ToSQL: the builder is kept from one successful call
\* to the next, its params with it.
ToSQLSharedBuilder(reg, f, driverName, v) ==
  LET got == GetDriver(reg, driverName)
      builder == [driver |-> got.driver,
                  params |-> IF last.op = "ToSQL" /\ last.err = Nil THEN last.params ELSE <<>>,
                  validator |-> v, calls |-> <<>>]
  IN IF got.err # Nil
       THEN [sql |-> "", params |-> NilSlice,
             err |-> <<"failed to get driver " \o GoQuote(driverName) \o ": " \o got.err[1]>>,
             calls |-> <<>>]
     ELSE IF f = Nil \/ f.Expression = Nil
       THEN [sql |-> "", params |-> NilSlice, err |-> <<"empty filter">>, calls |-> <<>>]
     ELSE Bind(buildExpression(builder, f.Expression), LAMBDA r :
            IF r.err # Nil
              THEN [sql |-> "", params |-> NilSlice, err |-> r.err, calls |-> r.b.calls]
              ELSE [sql |-> r.sql, params |-> r.b.params, err |-> Nil, calls |-> r.b.calls])

ToSQL(reg, f, driverName, v) ==
  LET got == GetDriver(reg, driverName)
      builder == [driver |-> got.driver, params |-> <<>>, validator |-> v,
                  calls |-> <<>>]
  IN IF got.err # Nil
       THEN [sql |-> "", params |-> NilSlice,
             err |-> <<"failed to get driver " \o GoQuote(driverName) \o ": " \o got.err[1]>>,
             calls |-> <<>>]
     ELSE IF f = Nil \/ f.Expression = Nil
       THEN [sql |-> "", params |-> NilSlice, err |-> <<"empty filter">>, calls |-> <<>>]
     ELSE Bind(buildExpression(builder, f.Expression), LAMBDA r :
            IF r.err # Nil
              THEN [sql |-> "", params |-> NilSlice, err |-> r.err, calls |-> r.b.calls]
              ELSE [sql |-> r.sql, params |-> r.b.params, err |-> Nil, calls |-> r.b.calls])

-----------------------------------------------------------------------------
(* The lexer (lexer.go): participle's simple lexer tries the rules in the  *)
(* order written at the start of the rest of the input and takes the first *)
(* that matches.  Each Match operator is the length of its rule's match, 0 *)
(* when the rule does not match.                                           *)

At(s, i) == IF i >= 1 /\ i <= Len(s) THEN SubSeq(s, i, i) ELSE ""

\* The number of leading characters of s, from position i on, that are in set.
RECURSIVE RunLen(_, _, _)
RunLen(s, i, set) == IF At(s, i) \in set THEN 1 + RunLen(s, i + 1, set) ELSE 0

\* (?i)\bKW\b
MatchKeyword(s, kw) ==
  IF /\ Len(s) >= Len(kw)
     /\ ToUpper(SubSeq(s, 1, Len(kw))) = kw
     /\ At(s, Len(kw) + 1) \notin IdentCharSet
    THEN Len(kw) ELSE 0

\* The end of q([^q\\]|\\.)*q scanning from position i: the position of the
\* closing quote, 0 when the input ends first.
RECURSIVE StringEnd(_, _, _)
StringEnd(s, i, q) ==
  IF i > Len(s) THEN 0
  ELSE IF At(s, i) = q THEN i
  ELSE IF At(s, i) = "\\"
    THEN (IF i + 1 > Len(s) \/ At(s, i + 1) = "\n" THEN 0 ELSE StringEnd(s, i + 2, q))
  ELSE StringEnd(s, i + 1, q)

MatchString(s, q) == IF At(s, 1) = q THEN StringEnd(s, 2, q) ELSE 0

\* `[^`]+`
MatchBacktickIdent(s) ==
  LET n == RunLen(s, 2, Chars(s) \ {Backtick})
  IN IF At(s, 1) = Backtick /\ n >= 1 /\ At(s, n + 2) = Backtick THEN n + 2 ELSE 0

\* [a-zA-Z_][a-zA-Z0-9_]*
MatchIdent(s) == IF At(s, 1) \in IdentCharSet \ DigitSet THEN RunLen(s, 1, IdentCharSet) ELSE 0

\* "[a-zA-Z_][a-zA-Z0-9_]*"
MatchQuotedIdent(s) ==
  LET n == IF s = "" THEN 0 ELSE MatchIdent(Tail(s))
  IN IF At(s, 1) = "\"" /\ n >= 1 /\ At(s, n + 2) = "\"" THEN n + 2 ELSE 0

\* [-+]?\d+(\.\d+)?([eE][-+]?\d+)?
MatchNumber(s) ==
  LET sign == IF At(s, 1) \in {"-", "+"} THEN 1 ELSE 0
      int == RunLen(s, sign + 1, DigitSet)
      frac == IF At(s, sign + int + 1) = "." THEN RunLen(s, sign + int + 2, DigitSet) ELSE 0
      mant == sign + int + (IF frac > 0 THEN frac + 1 ELSE 0)
      esign == IF At(s, mant + 2) \in {"-", "+"} THEN 1 ELSE 0
      exp == IF At(s, mant + 1) \in {"e", "E"} THEN RunLen(s, mant + esign + 2, DigitSet) ELSE 0
  IN IF int = 0 THEN 0 ELSE mant + (IF exp > 0 THEN 1 + esign + exp ELSE 0)

MatchText(s, text) == IF HasPrefix(s, text) THEN Len(text) ELSE 0

LexKeywords ==
  << <<"And", "AND">>, <<"Or", "OR">>, <<"Not", "NOT">>, <<"Between", "BETWEEN">>,
     <<"In", "IN">>, <<"Like", "LIKE">>, <<"ILike", "ILIKE">>, <<"Is", "IS">>,
     <<"Null", "NULL">>, <<"True", "TRUE">>, <<"False", "FALSE">> >>

LexSymbols ==
  << <<"NotEqual", "!=">>, <<"NotEqual", "<>">>, <<"LessOrEqual", "<=">>,
     <<"GreaterOrEqual", ">=">>, <<"Equal", "=">>, <<"Less", "<">>, <<"Greater", ">">> >>

LexPunctuation ==
  << <<"Dot", ".">>, <<"LParen", "(">>, <<"RParen", ")">>, <<"Comma", ",">> >>

Matched(type, n) == [type |-> type, n |-> n]

\* The first pair of rules, in order, that matches s; n = 0 when none does.
RECURSIVE FirstMatch(_, _, _)
FirstMatch(s, rules, keyword) ==
  IF Len(rules) = 0 THEN Matched("", 0)
  ELSE LET n == IF keyword THEN MatchKeyword(s, rules[1][2]) ELSE MatchText(s, rules[1][2])
       IN IF n > 0 THEN Matched(rules[1][1], n) ELSE FirstMatch(s, Tail(rules), keyword)

\* A faulty variant of NewLexer: the DoubleQuotedString rule is listed before
\* the QuotedIdent rule.
NewLexerStringFirst(s) ==
  LET ws == RunLen(s, 1, SpaceSet)
      kw == FirstMatch(s, LexKeywords, TRUE)
      sym == FirstMatch(s, LexSymbols, FALSE)
      punct == FirstMatch(s, LexPunctuation, FALSE)
  IN IF ws > 0 THEN Matched("Whitespace", ws)
     ELSE IF kw.n > 0 THEN kw
     ELSE IF sym.n > 0 THEN sym
     ELSE IF MatchString(s, "'") > 0 THEN Matched("String", MatchString(s, "'"))
     ELSE IF MatchBacktickIdent(s) > 0 THEN Matched("BacktickIdent", MatchBacktickIdent(s))
     ELSE IF MatchString(s, "\"") > 0 THEN Matched("DoubleQuotedString", MatchString(s, "\""))
     ELSE IF MatchQuotedIdent(s) > 0 THEN Matched("QuotedIdent", MatchQuotedIdent(s))
     ELSE IF MatchNumber(s) > 0 THEN Matched("Number", MatchNumber(s))
     ELSE IF MatchIdent(s) > 0 THEN Matched("Ident", MatchIdent(s))
     ELSE punct

\* The rule NewLexer's list selects at the start of s.
NewLexer(s) ==
  LET ws == RunLen(s, 1, SpaceSet)
      kw == FirstMatch(s, LexKeywords, TRUE)
      sym == FirstMatch(s, LexSymbols, FALSE)
      punct == FirstMatch(s, LexPunctuation, FALSE)
  IN IF ws > 0 THEN Matched("Whitespace", ws)
     ELSE IF kw.n > 0 THEN kw
     ELSE IF sym.n > 0 THEN sym
     ELSE IF MatchString(s, "'") > 0 THEN Matched("String", MatchString(s, "'"))
     ELSE IF MatchBacktickIdent(s) > 0 THEN Matched("BacktickIdent", MatchBacktickIdent(s))
     ELSE IF MatchQuotedIdent(s) > 0 THEN Matched("QuotedIdent", MatchQuotedIdent(s))
     ELSE IF MatchString(s, "\"") > 0 THEN Matched("DoubleQuotedString", MatchString(s, "\""))
     ELSE IF MatchNumber(s) > 0 THEN Matched("Number", MatchNumber(s))
     ELSE IF MatchIdent(s) > 0 THEN Matched("Ident", MatchIdent(s))
     ELSE punct

\* The token stream of s with Whitespace elided, or the lexer's error.
RECURSIVE Lex(_, _)
Lex(s, tokens) ==
  IF s = "" THEN [tokens |-> tokens, err |-> Nil]
  ELSE LET m == NewLexer(s)
           rest == SubSeq(s, m.n + 1, Len(s))
       IN IF m.n = 0 THEN [tokens |-> tokens, err |-> <<"invalid input text " \o GoQuote(s)>>]
          ELSE IF m.type = "Whitespace" THEN Lex(rest, tokens)
          ELSE Lex(rest, Append(tokens, [type |-> m.type, value |-> SubSeq(s, 1, m.n)]))

-----------------------------------------------------------------------------
(* The grammar (grammar.go): each production is the struct tag of its node, *)
(* read as participle reads it: ordered choice, an alternative's captures   *)
(* kept only when the alternative matches, repetition as far as it matches. *)
(* A parse result is [ok, node, i], i the position of the next token.       *)

Tok(toks, i) == IF i >= 1 /\ i <= Len(toks) THEN toks[i] ELSE [type |-> "EOF", value |-> ""]

NoParse == [ok |-> FALSE, node |-> Nil, i |-> 0]

Parsed(node, i) == [ok |-> TRUE, node |-> node, i |-> i]

\* The value of a run of decimal digits.
RECURSIVE Atoi(_)
Atoi(digits) ==
  IF digits = "" THEN 0
  ELSE 10 * Atoi(SubSeq(digits, 1, Len(digits) - 1))
       + (IndexIn(SubSeq(digits, Len(digits), Len(digits)), DigitChars) - 1)

\* The float64 a Number token is captured as; the numerals of the model's
\* inputs are integers.
ParseFloat(text) ==
  IF At(text, 1) = "-" THEN 0 - Atoi(Tail(text))
  ELSE IF At(text, 1) = "+" THEN Atoi(Tail(text))
  ELSE Atoi(text)

NoLiteral == [String |-> Nil, Number |-> Nil, Boolean |-> Nil, Null |-> FALSE]

NoValue == [Function |-> Nil, Field |-> Nil, Literal |-> Nil, SubExpr |-> Nil]

NoOperation == [Between |-> Nil, In |-> Nil, Like |-> Nil, Compare |-> Nil, IsNull |-> Nil]

\* BooleanLit: @True | @False
parseBooleanLit(toks, i) ==
  IF Tok(toks, i).type = "True" THEN Parsed([True |-> TRUE, False |-> FALSE], i + 1)
  ELSE IF Tok(toks, i).type = "False" THEN Parsed([True |-> FALSE, False |-> TRUE], i + 1)
  ELSE NoParse

\* LiteralValue: @(String | DoubleQuotedString) | @Number | @@ | @Null
parseLiteralValue(toks, i) ==
  LET t == Tok(toks, i)
      bool == parseBooleanLit(toks, i)
  IN IF t.type \in {"String", "DoubleQuotedString"}
       THEN Parsed([NoLiteral EXCEPT !.String = [s |-> t.value]], i + 1)
     ELSE IF t.type = "Number"
       THEN Parsed([NoLiteral EXCEPT !.Number = [n |-> ParseFloat(t.value)]], i + 1)
     ELSE IF bool.ok THEN Parsed([NoLiteral EXCEPT !.Boolean = bool.node], bool.i)
     ELSE IF t.type = "Null" THEN Parsed([NoLiteral EXCEPT !.Null = TRUE], i + 1)
     ELSE NoParse

IdentTokens == {"QuotedIdent", "BacktickIdent", "Ident"}

\* ( Dot @( QuotedIdent | BacktickIdent | Ident ) )*
RECURSIVE parseFieldParts(_, _, _)
parseFieldParts(toks, i, parts) ==
  IF Tok(toks, i).type = "Dot" /\ Tok(toks, i + 1).type \in IdentTokens
    THEN parseFieldParts(toks, i + 2, Append(parts, Tok(toks, i + 1).value))
    ELSE Parsed([Parts |-> parts], i)

\* FieldRef: @( QuotedIdent | BacktickIdent | Ident ) ( Dot @(...) )*
parseFieldRef(toks, i) ==
  IF Tok(toks, i).type \in IdentTokens
    THEN parseFieldParts(toks, i + 1, <<Tok(toks, i).value>>)
    ELSE NoParse

RECURSIVE parseExpression(_, _)
RECURSIVE parseOrTerms(_, _, _)
RECURSIVE parseTerm(_, _)
RECURSIVE parseAndFactors(_, _, _)
RECURSIVE parseFactor(_, _)
RECURSIVE parsePredicate(_, _)
RECURSIVE parseOperation(_, _)
RECURSIVE parseValue(_, _)
RECURSIVE parseValues(_, _, _)
RECURSIVE parseFunctionCall(_, _)

\* ( Comma @@ )*  after the values already parsed
parseValues(toks, i, values) ==
  IF Tok(toks, i).type # "Comma" THEN Parsed(values, i)
  ELSE Bind(parseValue(toks, i + 1), LAMBDA next :
         IF next.ok THEN parseValues(toks, next.i, Append(values, next.node))
         ELSE Parsed(values, i))

\* @@ ( Comma @@ )*
parseValueList(toks, i) ==
  Bind(parseValue(toks, i), LAMBDA first :
    IF first.ok THEN parseValues(toks, first.i, <<first.node>>) ELSE NoParse)

\* FunctionCall: @Ident LParen ( @@ ( Comma @@ )* )? RParen
parseFunctionCall(toks, i) ==
  IF Tok(toks, i).type # "Ident" \/ Tok(toks, i + 1).type # "LParen" THEN NoParse
  ELSE Bind(parseValueList(toks, i + 2), LAMBDA list :
         Bind(IF list.ok THEN list ELSE Parsed(<<>>, i + 2), LAMBDA args :
           IF Tok(toks, args.i).type = "RParen"
             THEN Parsed([Name |-> Tok(toks, i).value, Args |-> args.node], args.i + 1)
             ELSE NoParse))

\* LParen @@ RParen
parseSubExpr(toks, i) ==
  IF Tok(toks, i).type # "LParen" THEN NoParse
  ELSE Bind(parseExpression(toks, i + 1), LAMBDA sub :
         IF sub.ok /\ Tok(toks, sub.i).type = "RParen"
           THEN Parsed(sub.node, sub.i + 1)
           ELSE NoParse)

\* Value: Function | Field | Literal | LParen SubExpr RParen
parseValue(toks, i) ==
  IF i > Len(toks) THEN NoParse
  ELSE Bind(parseFunctionCall(toks, i), LAMBDA fn :
    IF fn.ok THEN Parsed([NoValue EXCEPT !.Function = fn.node], fn.i)
    ELSE Bind(parseFieldRef(toks, i), LAMBDA field :
      IF field.ok THEN Parsed([NoValue EXCEPT !.Field = field.node], field.i)
      ELSE Bind(parseLiteralValue(toks, i), LAMBDA lit :
        IF lit.ok THEN Parsed([NoValue EXCEPT !.Literal = lit.node], lit.i)
        ELSE Bind(parseSubExpr(toks, i), LAMBDA sub :
          IF sub.ok THEN Parsed([NoValue EXCEPT !.SubExpr = sub.node], sub.i)
          ELSE NoParse))))

\* @Not?: the position after the optional Not token.
SkipNot(toks, i) == IF Tok(toks, i).type = "Not" THEN i + 1 ELSE i

\* BetweenOp: @Not? @Between @@ @And @@
parseBetweenOp(toks, i) ==
  IF Tok(toks, SkipNot(toks, i)).type # "Between" THEN NoParse
  ELSE Bind(parseValue(toks, SkipNot(toks, i) + 1), LAMBDA lower :
         IF ~lower.ok \/ Tok(toks, lower.i).type # "And" THEN NoParse
         ELSE Bind(parseValue(toks, lower.i + 1), LAMBDA upper :
                IF upper.ok
                  THEN Parsed([Not |-> Tok(toks, i).type = "Not", Lower |-> lower.node,
                               Upper |-> upper.node], upper.i)
                  ELSE NoParse))

\* InOp: @Not? @In LParen @@ ( Comma @@ )* RParen
parseInOp(toks, i) ==
  IF \/ Tok(toks, SkipNot(toks, i)).type # "In"
     \/ Tok(toks, SkipNot(toks, i) + 1).type # "LParen"
    THEN NoParse
  ELSE Bind(parseValueList(toks, SkipNot(toks, i) + 2), LAMBDA values :
         IF values.ok /\ Tok(toks, values.i).type = "RParen"
           THEN Parsed([Not |-> Tok(toks, i).type = "Not", Values |-> values.node],
                       values.i + 1)
           ELSE NoParse)

\* LikeOp: @Not? LikeType Pattern, LikeType: @( Like | ILike )
parseLikeOp(toks, i) ==
  IF Tok(toks, SkipNot(toks, i)).type \notin {"Like", "ILike"} THEN NoParse
  ELSE Bind(parseValue(toks, SkipNot(toks, i) + 1), LAMBDA pattern :
         IF pattern.ok
           THEN Parsed([Not |-> Tok(toks, i).type = "Not",
                        Type |-> [Operator |-> Tok(toks, SkipNot(toks, i)).value],
                        Pattern |-> pattern.node], pattern.i)
           ELSE NoParse)

CompareTokens == {"Equal", "NotEqual", "LessOrEqual", "GreaterOrEqual", "Less", "Greater"}

\* CompareOp: CompareOperator Right, CompareOperator: @( Equal | ... | Greater )
parseCompareOp(toks, i) ==
  IF Tok(toks, i).type \notin CompareTokens THEN NoParse
  ELSE Bind(parseValue(toks, i + 1), LAMBDA right :
         IF right.ok
           THEN Parsed([Operator |-> [Type |-> Tok(toks, i).value], Right |-> right.node],
                       right.i)
           ELSE NoParse)

\* IsNullOp: @Is @Not? @Null
parseIsNullOp(toks, i) ==
  IF Tok(toks, i).type = "Is" /\ Tok(toks, SkipNot(toks, i + 1)).type = "Null"
    THEN Parsed([Not |-> Tok(toks, i + 1).type = "Not"], SkipNot(toks, i + 1) + 1)
    ELSE NoParse

\* Operation: Between | In | Like | Compare | IsNull
parseOperation(toks, i) ==
  Bind(parseBetweenOp(toks, i), LAMBDA between :
    IF between.ok THEN Parsed([NoOperation EXCEPT !.Between = between.node], between.i)
    ELSE Bind(parseInOp(toks, i), LAMBDA in :
      IF in.ok THEN Parsed([NoOperation EXCEPT !.In = in.node], in.i)
      ELSE Bind(parseLikeOp(toks, i), LAMBDA like :
        IF like.ok THEN Parsed([NoOperation EXCEPT !.Like = like.node], like.i)
        ELSE Bind(parseCompareOp(toks, i), LAMBDA compare :
          IF compare.ok THEN Parsed([NoOperation EXCEPT !.Compare = compare.node], compare.i)
          ELSE Bind(parseIsNullOp(toks, i), LAMBDA isNull :
            IF isNull.ok THEN Parsed([NoOperation EXCEPT !.IsNull = isNull.node], isNull.i)
            ELSE NoParse)))))

\* Predicate: Left Operation
parsePredicate(toks, i) ==
  Bind(parseValue(toks, i), LAMBDA left :
    IF ~left.ok THEN NoParse
    ELSE Bind(parseOperation(toks, left.i), LAMBDA operation :
           IF operation.ok
             THEN Parsed([Left |-> left.node, Operation |-> operation.node], operation.i)
             ELSE NoParse))

\* Factor: @Not? ( LParen SubExpr RParen ) | Predicate
parseFactor(toks, i) ==
  Bind(parseSubExpr(toks, SkipNot(toks, i)), LAMBDA sub :
    IF sub.ok
      THEN Parsed([Not |-> Tok(toks, i).type = "Not", SubExpr |-> sub.node,
                   Predicate |-> Nil], sub.i)
    ELSE Bind(parsePredicate(toks, i), LAMBDA predicate :
           IF predicate.ok
             THEN Parsed([Not |-> FALSE, SubExpr |-> Nil, Predicate |-> predicate.node],
                         predicate.i)
             ELSE NoParse))

\* ( And @@ )*
parseAndFactors(toks, i, factors) ==
  IF Tok(toks, i).type # "And" THEN Parsed([And |-> factors], i)
  ELSE Bind(parseFactor(toks, i + 1), LAMBDA next :
         IF next.ok THEN parseAndFactors(toks, next.i, Append(factors, next.node))
         ELSE Parsed([And |-> factors], i))

\* Term: @@ ( And @@ )*
parseTerm(toks, i) ==
  Bind(parseFactor(toks, i), LAMBDA first :
    IF first.ok THEN parseAndFactors(toks, first.i, <<first.node>>) ELSE NoParse)

\* ( Or @@ )*
parseOrTerms(toks, i, terms) ==
  IF Tok(toks, i).type # "Or" THEN Parsed([Or |-> terms], i)
  ELSE Bind(parseTerm(toks, i + 1), LAMBDA next :
         IF next.ok THEN parseOrTerms(toks, next.i, Append(terms, next.node))
         ELSE Parsed([Or |-> terms], i))

\* Expression: @@ ( Or @@ )*
parseExpression(toks, i) ==
  IF i > Len(toks) THEN NoParse
  ELSE Bind(parseTerm(toks, i), LAMBDA first :
         IF first.ok THEN parseOrTerms(toks, first.i, <<first.node>>) ELSE NoParse)

\* participle's ParseString for Filter: the whole input is one Expression.
ParseTokens(tokens) ==
  Bind(parseExpression(tokens, 1), LAMBDA expr :
    IF ~expr.ok \/ expr.i # Len(tokens) + 1
      THEN [filter |-> Nil, err |-> <<"unexpected token">>]
      ELSE [filter |-> [Expression |-> expr.node], err |-> Nil])

ParseString(input) ==
  Bind(Lex(input, <<>>), LAMBDA lexed :
    IF lexed.err # Nil THEN [filter |-> Nil, err |-> lexed.err]
    ELSE ParseTokens(lexed.tokens))

-----------------------------------------------------------------------------
(* The parser and its parse-time validation (parser.go).  A *Parser is its  *)
(* parserOptions; allowedFuncs is Nil for the nil map and [names |-> set]   *)
(* for a map WithFunctions has made.                                        *)

DefaultMaxDepth == 10

DefaultMaxINItems == 1000

WithMaxDepth(depth) == [option |-> "WithMaxDepth", n |-> depth, names |-> {}]

WithMaxINItems(max) == [option |-> "WithMaxINItems", n |-> max, names |-> {}]

WithFunctions(names) == [option |-> "WithFunctions", n |-> 0, names |-> names]

\* One ParserOption applied to the options o.
ApplyOption(o, opt) ==
  IF opt.option = "WithMaxDepth" THEN [o EXCEPT !.maxDepth = opt.n]
  ELSE IF opt.option = "WithMaxINItems" THEN [o EXCEPT !.maxINItems = opt.n]
  ELSE [o EXCEPT !.allowedFuncs =
          [names |-> (IF @ = Nil THEN {} ELSE @.names) \cup {ToUpper(n) : n \in opt.names}]]

RECURSIVE ApplyOptions(_, _)
ApplyOptions(o, opts) ==
  IF Len(opts) = 0 THEN o ELSE ApplyOptions(ApplyOption(o, opts[1]), Tail(opts))

\* NewParser(opts...): the defaults, then each option in order.
NewParser(opts) ==
  ApplyOptions([maxDepth |-> DefaultMaxDepth, maxINItems |-> DefaultMaxINItems,
                allowedFuncs |-> Nil], opts)

RECURSIVE validateExpression(_, _, _)
RECURSIVE validateTerms(_, _, _)
RECURSIVE validateTerm(_, _, _)
RECURSIVE validateFactors(_, _, _)
RECURSIVE validateFactor(_, _, _)
RECURSIVE validatePredicate(_, _)
RECURSIVE validateOperation(_, _)
RECURSIVE validateValue(_, _)
RECURSIVE validateValues(_, _)

validateExpression(p, expr, depth) ==
  IF depth > p.maxDepth
    THEN <<"expression depth exceeds maximum of " \o Itoa(p.maxDepth)>>
  ELSE IF expr = Nil \/ Len(expr.Or) = 0 THEN Nil
  ELSE validateTerms(p, expr.Or, depth)

\* for _, term := range expr.Or
validateTerms(p, terms, depth) ==
  IF Len(terms) = 0 THEN Nil
  ELSE LET err == validateTerm(p, terms[1], depth)
       IN IF err # Nil THEN err ELSE validateTerms(p, Tail(terms), depth)

validateTerm(p, term, depth) ==
  IF term = Nil \/ Len(term.And) = 0 THEN Nil
  ELSE validateFactors(p, term.And, depth)

\* for _, factor := range term.And
validateFactors(p, factors, depth) ==
  IF Len(factors) = 0 THEN Nil
  ELSE LET err == validateFactor(p, factors[1], depth)
       IN IF err # Nil THEN err ELSE validateFactors(p, Tail(factors), depth)

\* A faulty variant of validateFactor: a parenthesised sub-expression is
\* validated at the depth of the factor that holds it.
validateFactorSameDepth(p, factor, depth) ==
  IF factor = Nil THEN <<"empty factor">>
  ELSE IF factor.SubExpr # Nil THEN validateExpression(p, factor.SubExpr, depth)
  ELSE IF factor.Predicate # Nil THEN validatePredicate(p, factor.Predicate)
  ELSE <<"empty factor content">>

validateFactor(p, factor, depth) ==
  IF factor = Nil THEN <<"empty factor">>
  ELSE IF factor.SubExpr # Nil THEN validateExpression(p, factor.SubExpr, depth + 1)
  ELSE IF factor.Predicate # Nil THEN validatePredicate(p, factor.Predicate)
  ELSE <<"empty factor content">>

\* A faulty variant of validatePredicate: the operation is validated before
\* the left value.
validatePredicateOperationFirst(p, pred) ==
  IF pred = Nil THEN <<"empty predicate">>
  ELSE IF pred.Operation = Nil
    THEN (IF validateValue(p, pred.Left) # Nil THEN validateValue(p, pred.Left)
          ELSE <<"predicate missing operation">>)
  ELSE LET err == validateOperation(p, pred.Operation)
       IN IF err # Nil THEN err ELSE validateValue(p, pred.Left)

validatePredicate(p, pred) ==
  IF pred = Nil THEN <<"empty predicate">>
  ELSE LET err == validateValue(p, pred.Left)
       IN IF err # Nil THEN err
          ELSE IF pred.Operation = Nil THEN <<"predicate missing operation">>
          ELSE validateOperation(p, pred.Operation)

\* A faulty variant of validateOperation: a list of exactly maxINItems values
\* is turned away.
validateOperationOffByOne(p, op) ==
  IF op = Nil THEN <<"empty operation">>
  ELSE IF op.Compare # Nil THEN validateValue(p, op.Compare.Right)
  ELSE IF op.Like # Nil THEN validateValue(p, op.Like.Pattern)
  ELSE IF op.Between # Nil
    THEN LET err == validateValue(p, op.Between.Lower)
         IN IF err # Nil THEN err ELSE validateValue(p, op.Between.Upper)
  ELSE IF op.In # Nil
    THEN IF Len(op.In.Values) = 0 THEN <<"IN expression requires at least one value">>
         ELSE IF Len(op.In.Values) >= p.maxINItems
           THEN <<"IN expression exceeds maximum of " \o Itoa(p.maxINItems) \o " items">>
         ELSE validateValues(p, op.In.Values)
  ELSE IF op.IsNull # Nil THEN Nil
  ELSE <<"operation has no valid type">>

validateOperation(p, op) ==
  IF op = Nil THEN <<"empty operation">>
  ELSE IF op.Compare # Nil THEN validateValue(p, op.Compare.Right)
  ELSE IF op.Like # Nil THEN validateValue(p, op.Like.Pattern)
  ELSE IF op.Between # Nil
    THEN LET err == validateValue(p, op.Between.Lower)
         IN IF err # Nil THEN err ELSE validateValue(p, op.Between.Upper)
  ELSE IF op.In # Nil
    THEN IF Len(op.In.Values) = 0 THEN <<"IN expression requires at least one value">>
         ELSE IF Len(op.In.Values) > p.maxINItems
           THEN <<"IN expression exceeds maximum of " \o Itoa(p.maxINItems) \o " items">>
         ELSE validateValues(p, op.In.Values)
  ELSE IF op.IsNull # Nil THEN Nil
  ELSE <<"operation has no valid type">>

\* for _, value := range op.In.Values, and for _, arg := range val.Function.Args
validateValues(p, values) ==
  IF Len(values) = 0 THEN Nil
  ELSE LET err == validateValue(p, values[1])
       IN IF err # Nil THEN err ELSE validateValues(p, Tail(values))

\* A faulty variant of validateValue: the arguments of a function call are
\* not looked at.
validateValueShallow(p, val) ==
  IF val = Nil THEN Nil
  ELSE
    LET rejected == /\ val.Function # Nil
                    /\ p.allowedFuncs # Nil
                    /\ ToUpper(val.Function.Name) \notin p.allowedFuncs.names
    IN IF rejected THEN <<"function " \o GoQuote(val.Function.Name) \o " is not allowed">>
       ELSE IF val.SubExpr # Nil THEN validateExpression(p, val.SubExpr, 0)
       ELSE Nil

validateValue(p, val) ==
  IF val = Nil THEN Nil
  ELSE
    LET rejected == /\ val.Function # Nil
                    /\ p.allowedFuncs # Nil
                    /\ ToUpper(val.Function.Name) \notin p.allowedFuncs.names
        argErr == IF val.Function # Nil THEN validateValues(p, val.Function.Args) ELSE Nil
    IN IF rejected THEN <<"function " \o GoQuote(val.Function.Name) \o " is not allowed">>
       ELSE IF argErr # Nil THEN argErr
       ELSE IF val.SubExpr # Nil THEN validateExpression(p, val.SubExpr, 0)
       ELSE Nil

validate(p, f) == validateExpression(p, f.Expression, 0)

\* errors.Wrapf(err, message)
Wrapf(err, message) == <<message \o ": " \o err[1]>>

\* (*Parser).Parse
ParserParse(p, input) ==
  LET parsed == ParseString(input)
      invalid == validate(p, parsed.filter)
  IN IF input = "" THEN [filter |-> Nil, err |-> <<"empty filter expression">>]
     ELSE IF parsed.err # Nil
       THEN [filter |-> Nil, err |-> Wrapf(parsed.err, "failed to parse filter expression")]
     ELSE IF invalid # Nil
       THEN [filter |-> Nil, err |-> Wrapf(invalid, "filter validation failed")]
     ELSE [filter |-> parsed.filter, err |-> Nil]

\* The package-level Parse: a default parser, then its Parse.
Parse(input) == ParserParse(NewParser(<<>>), input)

-----------------------------------------------------------------------------
(* The state machine over the variables declared at the head of the module. *)

vars == <<drivers, validator, parser, filter, last, driversMu, goroutines>>

\* The size an allow-list is let grow to.
MaxAllowed == 2

\* The largest argument given to WithMaxDepth and WithMaxINItems.
MaxOption == 3

\* The filter expressions handed to Parse.
Inputs ==
  { "a = 1 OR b = 2 AND c = 3",
    "age > 18 AND status = 'active'",
    "name ILIKE '%john%'",
    "name NOT ILIKE '%john%'",
    "Users.Name = 'x'",
    "users = 1 OR a = 2",
    "LOWER(b, 1) = 2",
    "a = 1 AND BAD(b) = 2",
    "LOWER(name) = 'x' AND a IN (1, 2) AND ok = true AND z IS NULL",
    "NOT (a BETWEEN 1 AND 5)",
    "a = (b = 1)",
    "a = TRUE OR b IS NOT NULL OR c != NULL OR d = false",
    "CONCAT(name, LOWER('x')) = 'y' AND a = 3",
    "age >> 18",
    "" }

\* The filter expressions handed to a configured parser.
ParserInputs ==
  { "age > 18",
    "(age > 18)",
    "((age > 18))",
    "(((age > 18)))",
    "((((age > 18))))",
    "(a = 1 AND (b = 2 OR (c = 3 AND d = 4))) OR e = 5",
    "a = 1 AND b = 2 AND c = 3 AND d = 4 AND e = 5",
    "((a = ((b = 1))))",
    "NOT ((a = 1)) AND (b = 2)",
    "id IN (1, 2, 3, 4)",
    "(id IN (1, 2, 3))",
    "LENGTH(name) > 3",
    "LOWER(name) = UPPER(x)",
    "(((((age > 18)))))",
    "id IN (1)",
    "id NOT IN (1, 2)",
    "a = (id IN (1, 2, 3, 4))",
    "a IN (1) AND (b NOT IN (1, 2, 3, 4) OR c IN (1, 2))",
    "id IN ()",
    "a LIKE LOWER('%x%')",
    "a BETWEEN LENGTH(b) AND UPPER(c)",
    "a IN (1, lower(b))",
    "LENGTH(LOWER(name)) > 5",
    "a = (UPPER(b) = 'x')",
    "(lower(a) = 1) OR b = 2",
    "(age > 18" }

\* The option lists handed to NewParser.
ParserOptions ==
  {<<>>}
  \cup {<<WithMaxDepth(m)>> : m \in 0..MaxOption}
  \cup {<<WithMaxINItems(n)>> : n \in 0..MaxOption}
  \cup {<<WithFunctions({})>>, <<WithFunctions({"lower"})>>,
        <<WithFunctions({"LOWER"}), WithFunctions({"Upper"})>>,
        <<WithMaxDepth(2), WithMaxINItems(3), WithFunctions({"length"})>>}

\* The argument lists given to AllowFields and to AllowFunctions.
FieldLists == {<<"users.name">>, <<"Name">>, <<"a">>, <<"USERS.NAME", "a">>}

FunctionLists == {<<"lower">>, <<"BAD">>, <<"Lower", "bad">>}

\* The names ToSQL is called with; "mydb" is registered by no init().
DriverNames == {"postgres", "mysql", "mariadb", "clickhouse", "mydb"}

\* Filters built by hand from the exported AST types, each lacking a part
\* the grammar always supplies.
NumberValue(n) == [NoValue EXCEPT !.Literal = [NoLiteral EXCEPT !.Number = [n |-> n]]]

PredicateFilter(pred) ==
  [Expression |-> [Or |-> <<[And |-> <<[Not |-> FALSE, SubExpr |-> Nil, Predicate |-> pred]>>]>>]]

MalformedFilters ==
  { [Expression |-> Nil],
    PredicateFilter([Left |-> NumberValue(1), Operation |-> Nil]),
    PredicateFilter([Left |-> NumberValue(1),
                     Operation |-> [NoOperation EXCEPT !.Compare =
                        [Operator |-> [Type |-> "="],
                         Right |-> [NoValue EXCEPT !.Literal = NoLiteral]]]]),
    PredicateFilter([Left |-> NumberValue(1),
                     Operation |-> [NoOperation EXCEPT !.Like =
                        [Not |-> FALSE, Type |-> [Operator |-> "GLOB"],
                         Pattern |-> NumberValue(2)]]]) }

Outcome(op, arg, r) ==
  [op |-> op, arg |-> arg, sql |-> r.sql, params |-> r.params, err |-> r.err,
   calls |-> r.calls]

NoReturn == [sql |-> "", params |-> NilSlice, err |-> Nil, calls |-> <<>>]

\* A builder shared by every call: the one of the first goroutine.
SQLBuilderShared(g) == 1

\* The SQLBuilder a ToSQL call works on: the one the call itself made, held
\* by no other goroutine.
SQLBuilderOf(g) == g

\* The registry's lock and the goroutines that call the registry.  driversMu
\* is a sync.RWMutex: held by one writer (0 when by none) or by any number
\* of readers.
MaxGoroutines == 2

Goroutines == 1..MaxGoroutines

UnlockedMutex == [writer |-> 0, readers |-> {}]

\* driversMu.Lock() returns once no writer and no reader holds the lock.
CanLock(mu) == mu.writer = 0 /\ mu.readers = {}

\* A lock whose RLock does not wait for the writer.
CanRLockAlways(mu) == TRUE

\* driversMu.RLock() returns once no writer holds the lock.
CanRLock(mu) == mu.writer = 0

NoResult == [driver |-> NilDriver, err |-> Nil, names |-> <<>>, panic |-> ""]

IdleGoroutine ==
  [pc |-> "idle", call |-> "", name |-> "", driver |-> NilDriver, ret |-> NoResult]

Init ==
  /\ drivers = InitialDrivers
  /\ validator = Nil
  /\ parser = NewParser(<<>>)
  /\ filter = Nil
  /\ last = Outcome("init", "", NoReturn)
  /\ driversMu = UnlockedMutex
  /\ goroutines = [g \in Goroutines |-> IdleGoroutine]

\* A RegisterDriver that keeps the driver a name already has.
RegisterDriverKeepFirst(reg, name, driver) ==
  IF name \in DOMAIN reg THEN reg
  ELSE [n \in DOMAIN reg \cup {name} |-> IF n = name THEN driver ELSE reg[n]]

\* RegisterDriver(name, driver), for a non-nil driver and a non-empty name.
RegisterDriver(reg, name, driver) ==
  [n \in DOMAIN reg \cup {name} |-> IF n = name THEN driver ELSE reg[n]]

Register(name, driver) ==
  /\ drivers' = RegisterDriver(drivers, name, driver)
  /\ last' = Outcome("RegisterDriver", name, NoReturn)
  /\ UNCHANGED <<validator, parser, filter, driversMu, goroutines>>

CreateValidator ==
  /\ validator' = NewValidator
  /\ last' = Outcome("NewValidator", "", NoReturn)
  /\ UNCHANGED <<drivers, parser, filter, driversMu, goroutines>>

AllowFields(fields) ==
  /\ validator # Nil
  /\ validator' = ValidatorAllowFields(validator, fields)
  /\ Cardinality(validator'.allowedFields) <= MaxAllowed
  /\ last' = Outcome("AllowFields", "", NoReturn)
  /\ UNCHANGED <<drivers, parser, filter, driversMu, goroutines>>

AllowFunctions(functions) ==
  /\ validator # Nil
  /\ validator' = ValidatorAllowFunctions(validator, functions)
  /\ Cardinality(validator'.allowedFunctions) <= MaxAllowed
  /\ last' = Outcome("AllowFunctions", "", NoReturn)
  /\ UNCHANGED <<drivers, parser, filter, driversMu, goroutines>>

AllowAll ==
  /\ validator # Nil
  /\ validator' = ValidatorAllowAll(validator)
  /\ last' = Outcome("AllowAll", "", NoReturn)
  /\ UNCHANGED <<drivers, parser, filter, driversMu, goroutines>>

\* What Parse returns for each input.
ParseTable == [input \in Inputs |-> Parse(input)]

\* filter, err := where.Parse(input)
ParseInput(input) ==
  /\ filter' = ParseTable[input].filter
  /\ last' = Outcome("Parse", input, [NoReturn EXCEPT !.err = ParseTable[input].err])
  /\ UNCHANGED <<drivers, validator, parser, driversMu, goroutines>>

\* filter := &where.Filter{...}
BuildFilter(f) ==
  /\ filter' = f
  /\ last' = Outcome("Filter", "", NoReturn)
  /\ UNCHANGED <<drivers, validator, parser, driversMu, goroutines>>

\* sql, params, err := filter.ToSQL(driverName), with WithValidator(validator)
\* when the caller holds one.
Compile(driverName) ==
  /\ last' = Outcome("ToSQL", driverName, ToSQL(drivers, filter, driverName, validator))
  /\ UNCHANGED <<drivers, validator, parser, filter, driversMu, goroutines>>

Next ==
  \/ Register("mydb", MySQLDriver)
  \/ CreateValidator
  \/ \E fields \in FieldLists : AllowFields(fields)
  \/ \E functions \in FunctionLists : AllowFunctions(functions)
  \/ AllowAll
  \/ \E input \in Inputs : ParseInput(input)
  \/ \E f \in MalformedFilters : BuildFilter(f)
  \/ \E driverName \in DriverNames : Compile(driverName)

Spec == Init /\ [][Next]_vars

\* What each configured parser returns for each input.
ParserTable ==
  [opts \in ParserOptions |->
     [input \in ParserInputs |-> ParserParse(NewParser(opts), input)]]

\* parser, _ := where.NewParser(opts...)
CreateParser(opts) ==
  /\ parser' = NewParser(opts)
  /\ last' = Outcome("NewParser", "", NoReturn)
  /\ UNCHANGED <<drivers, validator, filter, driversMu, goroutines>>

\* filter, err := parser.Parse(input)
ParseWith(opts, input) ==
  /\ parser = NewParser(opts)
  /\ filter' = ParserTable[opts][input].filter
  /\ last' = Outcome("Parser.Parse", input,
                     [NoReturn EXCEPT !.err = ParserTable[opts][input].err])
  /\ UNCHANGED <<drivers, validator, parser, driversMu, goroutines>>

NextParser ==
  \/ \E opts \in ParserOptions : CreateParser(opts)
  \/ \E opts \in ParserOptions, input \in ParserInputs : ParseWith(opts, input)

SpecParser == Init /\ [][NextParser]_vars

-----------------------------------------------------------------------------
(* The nodes of a Filter, in the order a left-to-right, depth-first walk    *)
(* meets them: the vocabulary of the properties below.                      *)

RECURSIVE ValuesOfExpression(_)
RECURSIVE ValuesOfTerms(_)
RECURSIVE ValuesOfFactors(_)
RECURSIVE ValuesOfValue(_)
RECURSIVE ValuesOfValues(_)

ValuesOfValues(values) ==
  IF Len(values) = 0 THEN <<>>
  ELSE ValuesOfValue(values[1]) \o ValuesOfValues(Tail(values))

\* A Value, then the Values inside it.
ValuesOfValue(val) ==
  IF val = Nil THEN <<>>
  ELSE <<val>> \o (IF val.Function # Nil THEN ValuesOfValues(val.Function.Args)
                   ELSE IF val.SubExpr # Nil THEN ValuesOfExpression(val.SubExpr)
                   ELSE <<>>)

ValuesOfOperation(op) ==
  IF op = Nil THEN <<>>
  ELSE IF op.Compare # Nil THEN ValuesOfValue(op.Compare.Right)
  ELSE IF op.Like # Nil THEN ValuesOfValue(op.Like.Pattern)
  ELSE IF op.Between # Nil
    THEN ValuesOfValue(op.Between.Lower) \o ValuesOfValue(op.Between.Upper)
  ELSE IF op.In # Nil THEN ValuesOfValues(op.In.Values)
  ELSE <<>>

ValuesOfFactors(factors) ==
  IF Len(factors) = 0 THEN <<>>
  ELSE (IF factors[1].SubExpr # Nil THEN ValuesOfExpression(factors[1].SubExpr)
        ELSE IF factors[1].Predicate # Nil
          THEN ValuesOfValue(factors[1].Predicate.Left)
               \o ValuesOfOperation(factors[1].Predicate.Operation)
        ELSE <<>>)
       \o ValuesOfFactors(Tail(factors))

ValuesOfTerms(terms) ==
  IF Len(terms) = 0 THEN <<>>
  ELSE ValuesOfFactors(terms[1].And) \o ValuesOfTerms(Tail(terms))

ValuesOfExpression(expr) == IF expr = Nil THEN <<>> ELSE ValuesOfTerms(expr.Or)

\* Every Value node of the filter f.
ValuesOf(f) == IF f = Nil THEN <<>> ELSE ValuesOfExpression(f.Expression)

IsStringOrNumber(val) ==
  /\ val.Literal # Nil
  /\ ~val.Literal.Null
  /\ val.Literal.Boolean = Nil
  /\ (val.Literal.String # Nil \/ val.Literal.Number # Nil)

IsBooleanOrNull(val) ==
  /\ val.Literal # Nil
  /\ (val.Literal.Null \/ val.Literal.Boolean # Nil)

\* The String and Number literals of f, in order.
LiteralsOf(f) == SelectSeq(ValuesOf(f), IsStringOrNumber)

\* The values of those literals.
LiteralValuesOf(f) ==
  [k \in 1..Len(LiteralsOf(f)) |-> LiteralValueValue(LiteralsOf(f)[k].Literal)]

IsFieldRef(val) == val.Field # Nil

IsFunctionCall(val) == val.Function # Nil

\* The dot-joined names of the FieldRefs of f, and the names of its FunctionCalls.
FieldsOf(f) ==
  {Join(ValuesOf(f)[k].Field.Parts, ".") : k \in {j \in DOMAIN ValuesOf(f) : IsFieldRef(ValuesOf(f)[j])}}

FunctionsOf(f) ==
  {ValuesOf(f)[k].Function.Name : k \in {j \in DOMAIN ValuesOf(f) : IsFunctionCall(ValuesOf(f)[j])}}

\* The filter f with every String literal replaced by the token str and every
\* Number literal by num: the same tree with other literal values.
RECURSIVE RelabelExpression(_, _, _)
RECURSIVE RelabelValue(_, _, _)

RelabelLiteral(lit, str, num) ==
  IF lit.Null \/ lit.Boolean # Nil THEN lit
  ELSE IF lit.Number # Nil THEN [lit EXCEPT !.Number = [n |-> num]]
  ELSE IF lit.String # Nil THEN [lit EXCEPT !.String = [s |-> str]]
  ELSE lit

RelabelValues(values, str, num) ==
  [k \in 1..Len(values) |-> RelabelValue(values[k], str, num)]

RelabelValue(val, str, num) ==
  IF val = Nil THEN Nil
  ELSE IF val.Function # Nil
    THEN [val EXCEPT !.Function.Args = RelabelValues(@, str, num)]
  ELSE IF val.Literal # Nil THEN [val EXCEPT !.Literal = RelabelLiteral(@, str, num)]
  ELSE IF val.SubExpr # Nil THEN [val EXCEPT !.SubExpr = RelabelExpression(@, str, num)]
  ELSE val

RelabelOperation(op, str, num) ==
  IF op = Nil THEN Nil
  ELSE IF op.Compare # Nil THEN [op EXCEPT !.Compare.Right = RelabelValue(@, str, num)]
  ELSE IF op.Like # Nil THEN [op EXCEPT !.Like.Pattern = RelabelValue(@, str, num)]
  ELSE IF op.Between # Nil
    THEN [op EXCEPT !.Between.Lower = RelabelValue(@, str, num),
                    !.Between.Upper = RelabelValue(@, str, num)]
  ELSE IF op.In # Nil THEN [op EXCEPT !.In.Values = RelabelValues(@, str, num)]
  ELSE op

RelabelFactor(factor, str, num) ==
  IF factor.SubExpr # Nil
    THEN [factor EXCEPT !.SubExpr = RelabelExpression(@, str, num)]
  ELSE IF factor.Predicate # Nil
    THEN [factor EXCEPT !.Predicate =
            [Left |-> RelabelValue(@.Left, str, num),
             Operation |-> RelabelOperation(@.Operation, str, num)]]
  ELSE factor

RelabelTerm(term, str, num) ==
  [And |-> [k \in 1..Len(term.And) |-> RelabelFactor(term.And[k], str, num)]]

RelabelExpression(expr, str, num) ==
  IF expr = Nil THEN Nil
  ELSE [Or |-> [k \in 1..Len(expr.Or) |-> RelabelTerm(expr.Or[k], str, num)]]

Relabel(f, str, num) ==
  IF f = Nil THEN Nil ELSE [Expression |-> RelabelExpression(f.Expression, str, num)]

\* The positions the builder asked Placeholder for, in the order of the calls.
IsPlaceholderCall(call) == call.fn = "Placeholder"

PlaceholderPositions(calls) ==
  [k \in 1..Len(SelectSeq(calls, IsPlaceholderCall)) |->
     SelectSeq(calls, IsPlaceholderCall)[k].n]

-----------------------------------------------------------------------------
(* Properties of ToSQL, stated over the outcome of the last call: when      *)
(* last.op = "ToSQL" the variables drivers, filter and validator are those  *)
(* the call was made with, and last.arg is the driver name.                 *)

\* Other literal values for a filter: a string token full of SQL
\* metacharacters and a number, neither of which any input mentions.
Relabelings == {<<"'ZQ9'); DROP TABLE t; --'", 77>>, <<"'%_ZQ9\"'", 0 - 77>>}

\* C1: two filters of the same shape that differ only in the values of their
\* String and Number literals compile, for the same driver and validator, to
\* the same SQL string (and the same error); the literal values are returned
\* in params only and no part of them occurs in the SQL text.
C1_SameSQLForRelabelledLiterals ==
  last.op = "ToSQL" =>
    \A lab \in Relabelings :
      LET twin == Relabel(filter, lab[1], lab[2])
          out == ToSQL(drivers, twin, last.arg, validator)
      IN /\ out.sql = last.sql
         /\ out.err = last.err
         /\ last.err = Nil =>
              /\ last.params = LiteralValuesOf(filter)
              /\ out.params = LiteralValuesOf(twin)
              /\ ~Contains(out.sql, "ZQ9")
              /\ ~Contains(out.sql, "DROP")
              /\ ~Contains(out.sql, "77")

\* A compile of a filter with string and number literals succeeded, and its
\* relabelled twin carries the metacharacter string in params.
C1_Witness ==
  /\ last.op = "ToSQL"
  /\ last.err = Nil
  /\ Len(last.params) >= 3
  /\ \E k \in DOMAIN last.params : DOMAIN last.params[k] = {"s"}
  /\ \E k \in DOMAIN last.params : DOMAIN last.params[k] = {"n"}
  /\ LET out == ToSQL(drivers, Relabel(filter, "'ZQ9'); DROP TABLE t; --'", 77), last.arg, validator)
     IN /\ out.sql = last.sql
        /\ \E k \in DOMAIN out.params : out.params[k] = [s |-> "ZQ9'); DROP TABLE t; --"]

\* C2: when ToSQL succeeds, len(params) is the number of String and Number
\* literal nodes of the whole filter; a Boolean or Null literal renders as
\* bare TRUE, FALSE or NULL and leaves the parameter list as it was.
C2_ParamsCountLiterals ==
  (last.op = "ToSQL" /\ last.err = Nil) =>
    /\ Len(last.params) = Len(LiteralsOf(filter))
    /\ \A k \in DOMAIN ValuesOf(filter) :
         IsBooleanOrNull(ValuesOf(filter)[k]) =>
           LET lit == ValuesOf(filter)[k].Literal
               b == [driver |-> GetDriver(drivers, last.arg).driver,
                     params |-> SubSeq(last.params, 1, Len(SelectSeq(SubSeq(ValuesOf(filter), 1, k), IsStringOrNumber))),
                     validator |-> validator, calls |-> <<>>]
               r == buildLiteralValue(b, lit)
           IN /\ r.err = Nil
              /\ r.sql = (IF lit.Null THEN "NULL" ELSE IF lit.Boolean.True THEN "TRUE" ELSE "FALSE")
              /\ r.b.params = b.params
              /\ Contains(last.sql, r.sql)

\* A successful compile of a filter that has a Boolean literal, a Null test
\* and String and Number literals inside a function call and an IN list.
C2_Witness ==
  /\ last.op = "ToSQL"
  /\ last.err = Nil
  /\ \E k \in DOMAIN ValuesOf(filter) : IsBooleanOrNull(ValuesOf(filter)[k])
  /\ Len(ValuesOf(filter)) > Len(last.params)
  /\ Len(last.params) = 3
  /\ Contains(last.sql, "TRUE")

\* C3: in one ToSQL call the positions passed to driver.Placeholder are
\* 1, 2, ... in that order, with no gap or repeat; on success there are
\* len(params) of them and params[k] is the value of the k-th String/Number
\* literal of the filter, literals inside nested function arguments included.
C3_PlaceholderPositions ==
  last.op = "ToSQL" =>
    /\ \A k \in DOMAIN PlaceholderPositions(last.calls) :
         PlaceholderPositions(last.calls)[k] = k
    /\ last.err = Nil =>
         /\ Len(PlaceholderPositions(last.calls)) = Len(last.params)
         /\ \A k \in DOMAIN last.params :
              /\ last.params[k] = LiteralValueValue(LiteralsOf(filter)[k].Literal)
              /\ Contains(last.sql, Placeholder(GetDriver(drivers, last.arg).driver, k))

\* A successful postgres compile with a literal inside a nested function
\* argument followed by two more literals: $1, $2 and $3 all occur.
C3_Witness ==
  /\ last.op = "ToSQL"
  /\ last.arg = "postgres"
  /\ last.err = Nil
  /\ filter = Parse("CONCAT(name, LOWER('x')) = 'y' AND a = 3").filter
  /\ last.params = <<[s |-> "x"], [s |-> "y"], [n |-> 3]>>
  /\ PlaceholderPositions(last.calls) = <<1, 2, 3>>
  /\ Contains(last.sql, "LOWER($1)")

\* The elements of a finite set of strings as a sequence, for AllowFields.
RECURSIVE SeqOf(_)
SeqOf(S) == IF S = {} THEN <<>> ELSE LET x == CHOOSE y \in S : TRUE IN <<x>> \o SeqOf(S \ {x})

\* What the caller gets back, without the log of the calls made on the way.
Returned(out) == [sql |-> out.sql, params |-> out.params, err |-> out.err]

FieldListed(v, name) == ToLower(name) \in v.allowedFields

FunctionListed(v, name) == ToUpper(name) \in v.allowedFunctions

\* C4: with a validator that is not allow-all, ToSQL returns an error whenever
\* the dot-joined name of some FieldRef of the filter is not, as a whole and
\* ignoring case, in the field allow-list (allowing "users.name" allows
\* neither "users" nor "name"); once every field the filter references has
\* been added with AllowFields no field is rejected, and if its functions
\* are allowed too the filter compiles to what it compiles to unvalidated.
C4_FieldAllowList ==
  (last.op = "ToSQL" /\ validator # Nil /\ ~validator.allowAll) =>
    /\ (\E name \in FieldsOf(filter) : ~FieldListed(validator, name)) => last.err # Nil
    /\ LET added == ValidatorAllowFields(validator, SeqOf(FieldsOf(filter)))
           out == ToSQL(drivers, filter, last.arg, added)
       IN /\ out.err # Nil => ~Contains(out.err[1], "field ")
          /\ (\A name \in FunctionsOf(filter) : FunctionListed(validator, name)) =>
               Returned(out) = Returned(ToSQL(drivers, filter, last.arg, Nil))
    /\ LET v == ValidatorAllowFields(NewValidator, <<"users.name">>)
       IN /\ ~IsFieldAllowed(v, "users")
          /\ ~IsFieldAllowed(v, "name")
          /\ IsFieldAllowed(v, "Users.Name")

\* "users.name" is allowed and the filter references the field users: the
\* compile is rejected, and succeeds once users and a have been added.
C4_Witness ==
  /\ last.op = "ToSQL"
  /\ last.arg = "postgres"
  /\ validator # Nil
  /\ ~validator.allowAll
  /\ validator.allowedFields = {"users.name"}
  /\ FieldsOf(filter) = {"users", "a"}
  /\ last.err = <<"field \"users\" is not allowed">>
  /\ ToSQL(drivers, filter, last.arg, ValidatorAllowFields(validator, <<"users", "a">>)).sql
       = "(users = $1 OR a = $2)"

\* C5: with a validator installed, a FunctionCall whose name is not allowed
\* (ignoring case) makes ToSQL fail with the function-not-allowed error that
\* names it; the check comes before the driver's TranslateFunction and before
\* the call's arguments, so nothing follows the rejected IsFunctionAllowed in
\* the calls the builder made.  With no validator nothing is checked against
\* an allow-list and no not-allowed error is returned.
C5_FunctionCheckedFirst ==
  last.op = "ToSQL" =>
    /\ validator # Nil =>
         /\ (\E name \in FunctionsOf(filter) :
               ~validator.allowAll /\ ~FunctionListed(validator, name)) => last.err # Nil
         /\ \A k \in DOMAIN last.calls :
              (/\ last.calls[k].fn = "IsFunctionAllowed"
               /\ ~validator.allowAll
               /\ ~FunctionListed(validator, last.calls[k].arg)) =>
                /\ k = Len(last.calls)
                /\ last.err = <<"function " \o GoQuote(last.calls[k].arg) \o " is not allowed">>
         /\ \A k \in DOMAIN last.calls :
              last.calls[k].fn = "TranslateFunction" =>
                /\ k > 1
                /\ last.calls[k - 1] = [fn |-> "IsFunctionAllowed", arg |-> last.calls[k].arg, n |-> 0]
    /\ validator = Nil =>
         /\ \A k \in DOMAIN last.calls :
              last.calls[k].fn \notin {"IsFieldAllowed", "IsFunctionAllowed"}
         /\ last.err # Nil => ~Contains(last.err[1], "is not allowed")
         /\ (last.arg \in {"postgres", "mysql", "mariadb"}
               /\ filter = Parse("LOWER(b, 1) = 2").filter) =>
              last.err = <<"function \"LOWER\" with 2 arguments not supported by driver "
                           \o DriverName(drivers[last.arg])>>

\* LOWER(b, 1) is compiled with a validator that allows neither LOWER nor the
\* field b, for a driver that has no two-argument LOWER: the error is
\* function-not-allowed and the validator was the only thing asked.
C5_Witness ==
  /\ last.op = "ToSQL"
  /\ last.arg = "mysql"
  /\ validator # Nil
  /\ ~validator.allowAll
  /\ filter = Parse("LOWER(b, 1) = 2").filter
  /\ ~FieldListed(validator, "b")
  /\ ~TranslateFunction(MySQLDriver, "LOWER", 2).ok
  /\ last.err = <<"function \"LOWER\" is not allowed">>
  /\ last.calls = <<[fn |-> "IsFunctionAllowed", arg |-> "LOWER", n |-> 0]>>

\* C6: whenever ToSQL returns an error the returned SQL is the empty string
\* and the returned params are nil, also when literals had been appended to
\* the parameter list before the failing node was reached.
C6_NoPartialResult ==
  (last.op = "ToSQL" /\ last.err # Nil) =>
    /\ last.sql = ""
    /\ last.params = NilSlice

\* A compile fails at a node that comes after a literal was bound.
C6_Witness ==
  /\ last.op = "ToSQL"
  /\ last.err # Nil
  /\ ~IsPanic(last.err)
  /\ \E k \in DOMAIN last.calls : last.calls[k] = [fn |-> "Placeholder", arg |-> "", n |-> 1]
  /\ last.sql = ""
  /\ last.params = NilSlice

\* The Expression nodes of a filter: the top one, those in parentheses as a
\* Factor, and those in parentheses as a Value.
RECURSIVE ExprsOfExpression(_)
RECURSIVE ExprsOfTerms(_)
RECURSIVE ExprsOfFactors(_)

ExprsOfFactors(factors) ==
  IF Len(factors) = 0 THEN {}
  ELSE (IF factors[1].SubExpr # Nil THEN ExprsOfExpression(factors[1].SubExpr) ELSE {})
       \cup ExprsOfFactors(Tail(factors))

ExprsOfTerms(terms) ==
  IF Len(terms) = 0 THEN {}
  ELSE ExprsOfFactors(terms[1].And) \cup ExprsOfTerms(Tail(terms))

ExprsOfExpression(expr) == {expr} \cup ExprsOfTerms(expr.Or)

IsSubExpr(val) == val.SubExpr # Nil

ExpressionsOf(f) ==
  IF f = Nil \/ f.Expression = Nil THEN {}
  ELSE ExprsOfExpression(f.Expression)
       \cup UNION {ExprsOfExpression(ValuesOf(f)[k].SubExpr) :
                     k \in {j \in DOMAIN ValuesOf(f) : IsSubExpr(ValuesOf(f)[j])}}

TermsOf(f) == UNION {{expr.Or[k] : k \in DOMAIN expr.Or} : expr \in ExpressionsOf(f)}

\* The SQL of each term (factor) in turn, each built where the one before
\* left the builder.
RECURSIVE TermSQLs(_, _)
TermSQLs(b, terms) ==
  IF Len(terms) = 0 THEN <<>>
  ELSE <<buildTerm(b, terms[1]).sql>> \o TermSQLs(buildTerm(b, terms[1]).b, Tail(terms))

RECURSIVE FactorSQLs(_, _)
FactorSQLs(b, factors) ==
  IF Len(factors) = 0 THEN <<>>
  ELSE <<buildFactor(b, factors[1]).sql>> \o FactorSQLs(buildFactor(b, factors[1]).b, Tail(factors))

\* The builder ToSQL starts from in the last call.
LastBuilder ==
  [driver |-> GetDriver(drivers, last.arg).driver, params |-> <<>>,
   validator |-> validator, calls |-> <<>>]

PrecedenceFilter == Parse("a = 1 OR b = 2 AND c = 3").filter

\* C7 as the specification states it: "a = 1 OR b = 2 AND c = 3" compiled for
\* postgres yields exactly a = $1 OR (b = $2 AND c = $3) with params
\* [1, 2, 3], with no parentheses around the whole OR expression.
C7_AsStated ==
  (last.op = "ToSQL" /\ last.arg = "postgres" /\ filter = PrecedenceFilter /\ validator = Nil) =>
    /\ last.sql = "a = $1 OR (b = $2 AND c = $3)"
    /\ last.params = <<[n |-> 1], [n |-> 2], [n |-> 3]>>

\* C7, amended: "a = 1 OR b = 2 AND c = 3" parses to two OR-ed terms, the
\* second being the AND of b = 2 and c = 3, and compiled for postgres yields
\* exactly (a = $1 OR (b = $2 AND c = $3)) with params [1, 2, 3]: the AND
\* group is parenthesised and so is the whole two-term OR expression.
C7_PrecedenceWithOuterParens ==
  (last.op = "ToSQL" /\ last.arg = "postgres" /\ filter = PrecedenceFilter /\ validator = Nil) =>
    /\ Len(filter.Expression.Or) = 2
    /\ Len(filter.Expression.Or[1].And) = 1
    /\ Len(filter.Expression.Or[2].And) = 2
    /\ last.err = Nil
    /\ last.sql = "(a = $1 OR (b = $2 AND c = $3))"
    /\ last.params = <<[n |-> 1], [n |-> 2], [n |-> 3]>>

\* The filter has been parsed and compiled for postgres with no validator.
C7_Witness ==
  /\ last.op = "ToSQL"
  /\ last.arg = "postgres"
  /\ validator = Nil
  /\ filter = PrecedenceFilter
  /\ last.sql = "(a = $1 OR (b = $2 AND c = $3))"

\* C8: an Expression with one Term renders as that Term's SQL, and one with
\* n > 1 Terms as "(" + the Terms' SQL joined by " OR " + ")"; a Term renders
\* its Factors the same way with " AND ".  So two AND-ed predicates compile to
\* (age > $1 AND status = $2) and a single predicate to the predicate's SQL.
C8_ParenthesesRule ==
  (last.op = "ToSQL" /\ last.arg \in DOMAIN drivers) =>
    /\ \A expr \in ExpressionsOf(filter) :
         LET r == buildExpression(LastBuilder, expr)
         IN r.err = Nil =>
              /\ Len(expr.Or) = 1 => r.sql = buildTerm(LastBuilder, expr.Or[1]).sql
              /\ Len(expr.Or) > 1 =>
                   r.sql = "(" \o Join(TermSQLs(LastBuilder, expr.Or), " OR ") \o ")"
    /\ \A term \in TermsOf(filter) :
         LET r == buildTerm(LastBuilder, term)
         IN r.err = Nil =>
              /\ Len(term.And) = 1 => r.sql = buildFactor(LastBuilder, term.And[1]).sql
              /\ Len(term.And) > 1 =>
                   r.sql = "(" \o Join(FactorSQLs(LastBuilder, term.And), " AND ") \o ")"
    /\ (last.err = Nil /\ filter # Nil) =>
         /\ last.sql = buildExpression(LastBuilder, filter.Expression).sql
         /\ (/\ Len(filter.Expression.Or) = 1
             /\ Len(filter.Expression.Or[1].And) = 1
             /\ filter.Expression.Or[1].And[1].Predicate # Nil) =>
              last.sql = buildPredicate(LastBuilder, filter.Expression.Or[1].And[1].Predicate).sql
         /\ (last.arg = "postgres" /\ filter = Parse("age > 18 AND status = 'active'").filter) =>
              last.sql = "(age > $1 AND status = $2)"
         /\ (last.arg = "postgres" /\ filter = Parse("Users.Name = 'x'").filter) =>
              last.sql = "Users.Name = $1"

\* Two AND-ed predicates have been compiled for postgres.
C8_Witness ==
  /\ last.op = "ToSQL"
  /\ last.arg = "postgres"
  /\ last.err = Nil
  /\ Len(filter.Expression.Or) = 1
  /\ Len(filter.Expression.Or[1].And) = 2
  /\ last.sql = "(age > $1 AND status = $2)"

\* A filter that is one predicate <field> [NOT] ILIKE '<pattern>'.
IsILikeFilter(f) ==
  /\ f # Nil
  /\ f.Expression # Nil
  /\ Len(f.Expression.Or) = 1
  /\ Len(f.Expression.Or[1].And) = 1
  /\ f.Expression.Or[1].And[1].Predicate # Nil
  /\ LET pred == f.Expression.Or[1].And[1].Predicate
     IN /\ pred.Left # Nil
        /\ pred.Left.Field # Nil
        /\ pred.Operation # Nil
        /\ pred.Operation.Like # Nil
        /\ ToUpper(pred.Operation.Like.Type.Operator) = "ILIKE"
        /\ pred.Operation.Like.Pattern.Literal # Nil
        /\ pred.Operation.Like.Pattern.Literal.String # Nil

ILikeFilter == Parse("name ILIKE '%john%'").filter

NotILikeFilter == Parse("name NOT ILIKE '%john%'").filter

\* C9: the one AST of <field> [NOT] ILIKE '<pattern>' compiles to
\* <field> [NOT ]ILIKE <placeholder> for the postgres and clickhouse drivers
\* and to LOWER(<field>) [NOT ]LIKE LOWER(?) for the mysql driver, also under
\* its alias mariadb; params is the one-element list of the pattern each time.
C9_ILikePerDriver ==
  (/\ last.op = "ToSQL"
   /\ last.arg \in {"postgres", "clickhouse", "mysql", "mariadb"}
   /\ IsILikeFilter(filter)
   /\ \A name \in FieldsOf(filter) : validator = Nil \/ IsFieldAllowed(validator, name)) =>
    LET pred == filter.Expression.Or[1].And[1].Predicate
        field == buildFieldRef(LastBuilder, pred.Left.Field).sql
        not == IF pred.Operation.Like.Not THEN "NOT " ELSE ""
    IN /\ last.err = Nil
       /\ last.params = <<LiteralValueValue(pred.Operation.Like.Pattern.Literal)>>
       /\ last.arg = "postgres" => last.sql = field \o " " \o not \o "ILIKE $1"
       /\ last.arg = "clickhouse" => last.sql = field \o " " \o not \o "ILIKE ?"
       /\ last.arg \in {"mysql", "mariadb"} =>
            last.sql = "LOWER(" \o field \o ") " \o not \o "LIKE LOWER(?)"
       /\ filter = ILikeFilter =>
            /\ last.params = <<[s |-> "%john%"]>>
            /\ last.sql = (IF last.arg = "postgres" THEN "name ILIKE $1"
                           ELSE IF last.arg = "clickhouse" THEN "name ILIKE ?"
                           ELSE "LOWER(name) LIKE LOWER(?)")
       /\ filter = NotILikeFilter =>
            /\ last.params = <<[s |-> "%john%"]>>
            /\ last.sql = (IF last.arg = "postgres" THEN "name NOT ILIKE $1"
                           ELSE IF last.arg = "clickhouse" THEN "name NOT ILIKE ?"
                           ELSE "LOWER(name) NOT LIKE LOWER(?)")
       /\ \A other \in {"postgres", "clickhouse", "mysql", "mariadb"} :
            ToSQL(drivers, filter, other, validator).params = last.params

\* name NOT ILIKE '%john%' has been compiled under the alias mariadb.
C9_Witness ==
  /\ last.op = "ToSQL"
  /\ last.arg = "mariadb"
  /\ filter = NotILikeFilter
  /\ last.sql = "LOWER(name) NOT LIKE LOWER(?)"
  /\ last.params = <<[s |-> "%john%"]>>
  /\ ToSQL(drivers, filter, "postgres", validator).sql = "name NOT ILIKE $1"

-----------------------------------------------------------------------------
(* Properties of Parser.Parse, stated over the outcome of the last call:    *)
(* when last.op = "Parser.Parse" the variable parser is the parser that was *)
(* called and last.arg is its input.                                        *)

Max(a, b) == IF a >= b THEN a ELSE b

\* The length of the longest chain of parenthesised Factor sub-expressions,
\* each directly inside the one before, starting at an expression.
RECURSIVE DepthOfExpression(_)
RECURSIVE DepthOfTerms(_)
RECURSIVE DepthOfFactors(_)

DepthOfFactors(factors) ==
  IF Len(factors) = 0 THEN 0
  ELSE Max(IF factors[1].SubExpr # Nil THEN 1 + DepthOfExpression(factors[1].SubExpr) ELSE 0,
           DepthOfFactors(Tail(factors)))

DepthOfTerms(terms) ==
  IF Len(terms) = 0 THEN 0
  ELSE Max(DepthOfFactors(terms[1].And), DepthOfTerms(Tail(terms)))

DepthOfExpression(expr) == DepthOfTerms(expr.Or)

RECURSIVE MaxOf(_)
MaxOf(S) == IF S = {} THEN 0 ELSE LET x == CHOOSE y \in S : TRUE IN Max(x, MaxOf(S \ {x}))

\* The deepest such chain of a filter, among those that start at the top and
\* those that start at an expression in parentheses used as a Value.
FactorDepth(f) ==
  MaxOf({DepthOfExpression(f.Expression)}
        \cup {DepthOfExpression(ValuesOf(f)[k].SubExpr) :
                k \in {j \in DOMAIN ValuesOf(f) : IsSubExpr(ValuesOf(f)[j])}})

\* The predicate age > 18 inside k pairs of parentheses.
RECURSIVE Nested(_)
Nested(k) ==
  IF k = 0 THEN ParseString("age > 18").filter.Expression
  ELSE [Or |-> <<[And |-> <<[Not |-> FALSE, SubExpr |-> Nested(k - 1), Predicate |-> Nil]>>]>>]

\* C10: for a filter whose deepest chain of nested parenthesised Factor
\* sub-expressions has length d and which has no other violation, Parse with
\* WithMaxDepth(m) succeeds iff d <= m, however long its AND/OR chains are;
\* "(((age > 18)))" is rejected with the depth error for m = 2 and accepted
\* for m = 3, and a parser built without the option has the limit 10.
C10_MaxDepth ==
  /\ last.op = "Parser.Parse" =>
       LET parsed == ParseString(last.arg)
           unlimited == [parser EXCEPT !.maxDepth = Len(last.arg)]
       IN (last.arg # "" /\ parsed.err = Nil /\ validate(unlimited, parsed.filter) = Nil) =>
            /\ last.err = Nil <=> FactorDepth(parsed.filter) <= parser.maxDepth
            /\ last.err = Nil => filter = parsed.filter
            /\ last.err # Nil =>
                 last.err = <<"filter validation failed: expression depth exceeds maximum of "
                              \o Itoa(parser.maxDepth)>>
            /\ last.arg = "(((age > 18)))" =>
                 /\ parsed.filter.Expression = Nested(3)
                 /\ FactorDepth(parsed.filter) = 3
                 /\ parser.maxDepth = 2 => last.err # Nil
                 /\ parser.maxDepth = 3 => last.err = Nil
  /\ NewParser(<<>>).maxDepth = 10
  /\ validate(NewParser(<<>>), [Expression |-> Nested(10)]) = Nil
  /\ validate(NewParser(<<>>), [Expression |-> Nested(11)])
       = <<"expression depth exceeds maximum of 10">>

\* "(((age > 18)))" has been rejected by a parser built WithMaxDepth(2).
C10_Witness ==
  /\ last.op = "Parser.Parse"
  /\ last.arg = "(((age > 18)))"
  /\ parser = NewParser(<<WithMaxDepth(2)>>)
  /\ last.err = <<"filter validation failed: expression depth exceeds maximum of 2">>
  /\ ParserParse(NewParser(<<WithMaxDepth(3)>>), last.arg).err = Nil

\* The predicates of a filter at every level, and its IN operations.
FactorsOf(f) == UNION {{term.And[k] : k \in DOMAIN term.And} : term \in TermsOf(f)}

PredicatesOf(f) ==
  {factor.Predicate : factor \in {g \in FactorsOf(f) : g.Predicate # Nil}}

InOpsOf(f) ==
  {pred.Operation.In :
     pred \in {q \in PredicatesOf(f) : q.Operation # Nil /\ q.Operation.In # Nil}}

\* The filter id IN (<values>) with n values, built by hand: the grammar
\* yields no IN operation with an empty list.
InFilter(n) ==
  [Expression |-> [Or |-> <<[And |-> <<[Not |-> FALSE, SubExpr |-> Nil,
     Predicate |-> [Left |-> ParseString("id = 1").filter.Expression.Or[1].And[1].Predicate.Left,
                    Operation |-> [NoOperation EXCEPT
                      !.In = [Not |-> FALSE, Values |-> [k \in 1..n |-> NumberValue(k)]]]]]>>]>>]]

\* C11: parse-time validation accepts the IN and NOT IN operations of a
\* filter, wherever they are in the tree, iff each has between 1 and
\* maxINItems values; a list of maxINItems + 1 values is rejected with the
\* exceeds-maximum error and Parse returns a nil Filter, and WithMaxINItems(0)
\* rejects every IN expression.
C11_MaxINItems ==
  /\ last.op = "Parser.Parse" =>
       LET parsed == ParseString(last.arg)
           unlimited == [parser EXCEPT !.maxINItems = Len(last.arg)]
       IN (last.arg # "" /\ parsed.err = Nil /\ validate(unlimited, parsed.filter) = Nil) =>
            /\ last.err = Nil <=>
                 \A in \in InOpsOf(parsed.filter) :
                   1 <= Len(in.Values) /\ Len(in.Values) <= parser.maxINItems
            /\ last.err # Nil =>
                 /\ last.err = <<"filter validation failed: IN expression exceeds maximum of "
                                 \o Itoa(parser.maxINItems) \o " items">>
                 /\ filter = Nil
            /\ (\E in \in InOpsOf(parsed.filter) : Len(in.Values) = parser.maxINItems + 1) =>
                 last.err # Nil
            /\ (parser.maxINItems = 0 /\ InOpsOf(parsed.filter) # {}) => last.err # Nil
  /\ \A n \in 0..(MaxOption + 1), max \in 0..MaxOption :
       validate(NewParser(<<WithMaxINItems(max)>>), InFilter(n)) = Nil <=> (1 <= n /\ n <= max)
  /\ validate(NewParser(<<>>), InFilter(0)) = <<"IN expression requires at least one value">>

\* A four-value NOT IN list inside a parenthesised sub-expression has been
\* rejected by a parser built WithMaxINItems(3), which accepts three values.
C11_Witness ==
  /\ last.op = "Parser.Parse"
  /\ parser = NewParser(<<WithMaxINItems(3)>>)
  /\ last.arg = "a IN (1) AND (b NOT IN (1, 2, 3, 4) OR c IN (1, 2))"
  /\ last.err = <<"filter validation failed: IN expression exceeds maximum of 3 items">>
  /\ filter = Nil
  /\ ParserParse(parser, "(id IN (1, 2, 3))").err = Nil

\* C12: with WithFunctions(names...) configured, Parse fails with the
\* not-allowed error naming the function iff some FunctionCall of the tree
\* (left side, right side, LIKE pattern, BETWEEN bound, IN item, function
\* argument, sub-expression) has a name that is not in names ignoring case,
\* the function named being the first such one of the walk; WithFunctions()
\* rejects every function call, and a parser built without the option rejects
\* none.  A filter that breaks the depth or IN limit as well fails too, with
\* the error of whichever violation the walk meets first.
C12_ParseTimeFunctions ==
  last.op = "Parser.Parse" =>
    LET parsed == ParseString(last.arg)
        anyFunction == [parser EXCEPT !.allowedFuncs = Nil]
        Listed(name) == parser.allowedFuncs = Nil \/ ToUpper(name) \in parser.allowedFuncs.names
        Unlisted(val) == val.Function # Nil /\ ~Listed(val.Function.Name)
        unlisted == SelectSeq(ValuesOf(parsed.filter), Unlisted)
    IN (last.arg # "" /\ parsed.err = Nil) =>
         /\ unlisted # <<>> => (last.err # Nil /\ filter = Nil)
         /\ (last.err # Nil /\ Contains(last.err[1], "is not allowed")) =>
              \E k \in DOMAIN unlisted :
                last.err = <<"filter validation failed: function "
                             \o GoQuote(unlisted[k].Function.Name) \o " is not allowed">>
         /\ validate(anyFunction, parsed.filter) = Nil =>
              /\ last.err # Nil <=> unlisted # <<>>
              /\ unlisted # <<>> =>
                   last.err = <<"filter validation failed: function "
                                \o GoQuote(unlisted[1].Function.Name) \o " is not allowed">>
         /\ (parser.allowedFuncs # Nil /\ parser.allowedFuncs.names = {}
             /\ FunctionsOf(parsed.filter) # {}) => last.err # Nil
         /\ parser.allowedFuncs = Nil => unlisted = <<>>

\* LENGTH(LOWER(name)) > 5 has been rejected by a parser that allows only
\* "length": the error names LOWER, the function in the argument.
C12_Witness ==
  /\ last.op = "Parser.Parse"
  /\ parser.allowedFuncs # Nil
  /\ parser.allowedFuncs.names = {"LENGTH"}
  /\ last.arg = "LENGTH(LOWER(name)) > 5"
  /\ last.err = <<"filter validation failed: function \"LOWER\" is not allowed">>
  /\ filter = Nil

-----------------------------------------------------------------------------
(* Properties of the Validator and of the driver registry, stated over the  *)
(* steps of the program: each relates the answers before a call to the      *)
(* answers after it.                                                        *)

FieldProbes == {"users.name", "USERS.NAME", "Users.Name", "users", "name", "NAME", "a", "A", "zzz"}

FunctionProbes == {"lower", "LOWER", "Lower", "bad", "Bad", "BAD", "upper"}

\* Equal ignoring case.
EqualFold(s, t) == ToUpper(s) = ToUpper(t) /\ ToLower(s) = ToLower(t)

Includes(names, name) == \E i \in DOMAIN names : EqualFold(names[i], name)

C13_Step ==
  /\ CreateValidator =>
       /\ \A name \in FieldProbes : ~IsFieldAllowed(validator', name)
       /\ \A name \in FunctionProbes : ~IsFunctionAllowed(validator', name)
  /\ \A fields \in FieldLists :
       AllowFields(fields) =>
         /\ \A name \in FieldProbes :
              IsFieldAllowed(validator', name)
                <=> (IsFieldAllowed(validator, name) \/ Includes(fields, name))
         /\ \A name \in FunctionProbes :
              IsFunctionAllowed(validator', name) <=> IsFunctionAllowed(validator, name)
  /\ \A functions \in FunctionLists :
       AllowFunctions(functions) =>
         /\ \A name \in FunctionProbes :
              IsFunctionAllowed(validator', name)
                <=> (IsFunctionAllowed(validator, name) \/ Includes(functions, name))
         /\ \A name \in FieldProbes :
              IsFieldAllowed(validator', name) <=> IsFieldAllowed(validator, name)
  /\ AllowAll =>
       /\ \A name \in FieldProbes : IsFieldAllowed(validator', name)
       /\ \A name \in FunctionProbes : IsFunctionAllowed(validator', name)
  /\ last'.op \notin {"NewValidator", "AllowFields", "AllowFunctions", "AllowAll"} =>
       validator' = validator
  /\ (validator # Nil /\ last'.op # "NewValidator") =>
       /\ \A name \in FieldProbes :
            IsFieldAllowed(validator, name) => IsFieldAllowed(validator', name)
       /\ \A name \in FunctionProbes :
            IsFunctionAllowed(validator, name) => IsFunctionAllowed(validator', name)

\* The program that only builds a Validator.
NextValidator ==
  \/ CreateValidator
  \/ \E fields \in FieldLists : AllowFields(fields)
  \/ \E functions \in FunctionLists : AllowFunctions(functions)
  \/ AllowAll

SpecValidator == Init /\ [][NextValidator]_vars

\* C13: a Validator from NewValidator denies every field and function; an
\* AllowFields call makes allowed exactly the names that were allowed before
\* or equal, ignoring case, a name of the call, and changes no function
\* answer; AllowFunctions does the same for functions and changes no field
\* answer; AllowAll allows everything; no other step changes the validator
\* and no call turns an allowed name into a denied one.  By induction over the
\* calls, a name is allowed iff AllowAll was called or an earlier AllowFields
\* (AllowFunctions) call included it ignoring case.
C13_ValidatorAnswers == [][C13_Step]_vars

\* After AllowFields("Name") and AllowFunctions("Lower", "bad") the validator
\* allows name and NAME, lower and BAD, and nothing else of the probes; it is
\* not allow-all.
C13_Witness ==
  /\ validator # Nil
  /\ ~validator.allowAll
  /\ last.op = "AllowFunctions"
  /\ {name \in FieldProbes : IsFieldAllowed(validator, name)} = {"name", "NAME"}
  /\ {name \in FunctionProbes : IsFunctionAllowed(validator, name)}
       = {"lower", "LOWER", "Lower", "bad", "Bad", "BAD"}


\* ------------------------------------------------------------------
\* The driver registry under concurrent callers.  Each goroutine runs one
\* registry call at a time, statement by statement: the lock call, the body
\* and the deferred unlock are separate steps.
\* ------------------------------------------------------------------

\* The registry of a program that imports package where alone.
InitRegistry ==
  /\ drivers = <<>>
  /\ validator = Nil
  /\ parser = NewParser(<<>>)
  /\ filter = Nil
  /\ last = Outcome("init", "", NoReturn)
  /\ driversMu = UnlockedMutex
  /\ goroutines = [g \in Goroutines |-> IdleGoroutine]

RegistryNames == {"mydb", "pg"}

RegistryDrivers == {MySQLDriver, ClickHouseDriver}

RegisterCalls ==
  (RegistryNames \X RegistryDrivers) \cup {<<"", MySQLDriver>>, <<"mydb", NilDriver>>}

LookupNames == RegistryNames \cup {"nonexistent"}

\* The message RegisterDriver panics with, "" when it does not panic.
RegisterDriverPanics(name, driver) ==
  IF driver = NilDriver THEN "where: RegisterDriver driver is nil"
  ELSE IF name = "" THEN "where: RegisterDriver name is empty"
  ELSE ""

\* A RegisterDriver whose Unlock is not deferred: a panic skips it.
AfterRegisterBodyNoDefer(msg) == IF msg # "" THEN "idle" ELSE "Unlock"

\* Where RegisterDriver goes after its body: the deferred Unlock runs on a
\* normal return and on a panic alike.
AfterRegisterBody(msg) == "Unlock"

RECURSIVE Orderings(_)
Orderings(S) ==
  IF S = {} THEN {<<>>}
  ELSE UNION {{<<x>> \o rest : rest \in Orderings(S \ {x})} : x \in S}

\* The slices ListDrivers can return: the keys of the map, in any order.
ListDrivers(reg) == Orderings(DOMAIN reg)

\* A goroutine is inside the write critical section from the return of Lock
\* to the deferred Unlock, inside the read one from RLock to RUnlock.
InsideWrite(g) == goroutines[g].pc \in {"register", "Unlock"}

InsideRead(g) == goroutines[g].pc \in {"get", "list", "RUnlock"}

\* What a map read can give when it races with a map write: any lookup
\* outcome, or the runtime's fatal error.
ConcurrentMapAccess == "fatal error: concurrent map read and map write"

RacingLookups(name) ==
  {[NoResult EXCEPT !.driver = d] : d \in RegistryDrivers}
    \cup {[NoResult EXCEPT !.err = GetDriver(<<>>, name).err]}
    \cup {[NoResult EXCEPT !.panic = ConcurrentMapAccess]}

RacingLists ==
  {[NoResult EXCEPT !.names = names] : names \in UNION {Orderings(S) : S \in SUBSET RegistryNames}}
    \cup {[NoResult EXCEPT !.panic = ConcurrentMapAccess]}

CallRegisterDriver(g, name, driver) ==
  /\ goroutines[g].pc = "idle"
  /\ goroutines' = [goroutines EXCEPT ![g] =
       [pc |-> "Lock", call |-> "RegisterDriver", name |-> name, driver |-> driver,
        ret |-> NoResult]]
  /\ UNCHANGED <<drivers, validator, parser, filter, last, driversMu>>

CallGetDriver(g, name) ==
  /\ goroutines[g].pc = "idle"
  /\ goroutines' = [goroutines EXCEPT ![g] =
       [pc |-> "RLock", call |-> "GetDriver", name |-> name, driver |-> NilDriver,
        ret |-> NoResult]]
  /\ UNCHANGED <<drivers, validator, parser, filter, last, driversMu>>

CallListDrivers(g) ==
  /\ goroutines[g].pc = "idle"
  /\ goroutines' = [goroutines EXCEPT ![g] =
       [pc |-> "RLock", call |-> "ListDrivers", name |-> "", driver |-> NilDriver,
        ret |-> NoResult]]
  /\ UNCHANGED <<drivers, validator, parser, filter, last, driversMu>>

Lock(g) ==
  /\ goroutines[g].pc = "Lock"
  /\ CanLock(driversMu)
  /\ driversMu' = [driversMu EXCEPT !.writer = g]
  /\ goroutines' = [goroutines EXCEPT ![g].pc = "register"]
  /\ UNCHANGED <<drivers, validator, parser, filter, last>>

RegisterBody(g) ==
  LET call == goroutines[g]
      msg == RegisterDriverPanics(call.name, call.driver)
  IN /\ call.pc = "register"
     /\ drivers' = IF msg # "" THEN drivers
                   ELSE RegisterDriver(drivers, call.name, call.driver)
     /\ goroutines' = [goroutines EXCEPT ![g].pc = AfterRegisterBody(msg),
                                         ![g].ret = [NoResult EXCEPT !.panic = msg]]
     /\ UNCHANGED <<validator, parser, filter, last, driversMu>>

Unlock(g) ==
  /\ goroutines[g].pc = "Unlock"
  /\ driversMu' = [driversMu EXCEPT !.writer = 0]
  /\ goroutines' = [goroutines EXCEPT ![g].pc = "idle"]
  /\ UNCHANGED <<drivers, validator, parser, filter, last>>

RLock(g) ==
  /\ goroutines[g].pc = "RLock"
  /\ CanRLock(driversMu)
  /\ driversMu' = [driversMu EXCEPT !.readers = @ \cup {g}]
  /\ goroutines' = [goroutines EXCEPT ![g].pc =
       IF goroutines[g].call = "GetDriver" THEN "get" ELSE "list"]
  /\ UNCHANGED <<drivers, validator, parser, filter, last>>

GetBody(g) ==
  LET call == goroutines[g]
      found == GetDriver(drivers, call.name)
  IN /\ call.pc = "get"
     /\ \E ret \in IF \E h \in Goroutines : InsideWrite(h)
                     THEN RacingLookups(call.name)
                     ELSE {[NoResult EXCEPT !.driver = found.driver, !.err = found.err]} :
          goroutines' = [goroutines EXCEPT ![g].pc = "RUnlock", ![g].ret = ret]
     /\ UNCHANGED <<drivers, validator, parser, filter, last, driversMu>>

ListBody(g) ==
  /\ goroutines[g].pc = "list"
  /\ \E ret \in IF \E h \in Goroutines : InsideWrite(h)
                  THEN RacingLists
                  ELSE {[NoResult EXCEPT !.names = names] : names \in ListDrivers(drivers)} :
       goroutines' = [goroutines EXCEPT ![g].pc = "RUnlock", ![g].ret = ret]
  /\ UNCHANGED <<drivers, validator, parser, filter, last, driversMu>>

RUnlock(g) ==
  /\ goroutines[g].pc = "RUnlock"
  /\ driversMu' = [driversMu EXCEPT !.readers = @ \ {g}]
  /\ goroutines' = [goroutines EXCEPT ![g].pc = "idle"]
  /\ UNCHANGED <<drivers, validator, parser, filter, last>>

NextRegistry ==
  \/ \E g \in Goroutines, call \in RegisterCalls : CallRegisterDriver(g, call[1], call[2])
  \/ \E g \in Goroutines, name \in LookupNames : CallGetDriver(g, name)
  \/ \E g \in Goroutines : CallListDrivers(g)
  \/ \E g \in Goroutines : Lock(g)
  \/ \E g \in Goroutines : RegisterBody(g)
  \/ \E g \in Goroutines : Unlock(g)
  \/ \E g \in Goroutines : RLock(g)
  \/ \E g \in Goroutines : GetBody(g)
  \/ \E g \in Goroutines : ListBody(g)
  \/ \E g \in Goroutines : RUnlock(g)

SpecRegistry == InitRegistry /\ [][NextRegistry]_vars


NotRegistered(name) ==
  [driver |-> NilDriver, err |-> <<"driver " \o GoQuote(name) \o " not registered">>]

\* names holds exactly the members of S, each once.
ListsExactly(names, S) ==
  /\ Len(names) = Cardinality(S)
  /\ {names[i] : i \in 1..Len(names)} = S

Registers(g) == RegisterBody(g) /\ goroutines'[g].ret.panic = ""

C14_Step ==
  /\ \A g \in Goroutines : Registers(g) =>
       LET name == goroutines[g].name
           driver == goroutines[g].driver
       IN /\ GetDriver(drivers', name) = [driver |-> driver, err |-> Nil]
          /\ \A other \in LookupNames \ {name} :
               GetDriver(drivers', other) = GetDriver(drivers, other)
          /\ DOMAIN drivers' = DOMAIN drivers \cup {name}
  /\ (~ \E g \in Goroutines : Registers(g)) => drivers' = drivers
  /\ \A g \in Goroutines : GetBody(g) =>
       LET ret == goroutines'[g].ret
           name == goroutines[g].name
       IN /\ ret.panic = ""
          /\ IF name \in DOMAIN drivers
               THEN ret.driver = drivers[name] /\ ret.err = Nil
               ELSE ret.driver = NotRegistered(name).driver /\ ret.err = NotRegistered(name).err
  /\ \A g \in Goroutines : ListBody(g) =>
       /\ goroutines'[g].ret.panic = ""
       /\ ListsExactly(goroutines'[g].ret.names, DOMAIN drivers)

\* C14: the registry is a map from name to driver.  A registration makes
\* GetDriver of that name return the driver just registered (last writer
\* wins), leaves the answer for every other name as it was and removes no
\* name; no other step changes the map.  GetDriver returns the driver the map
\* holds for the name, or the not-registered error when the map holds none,
\* as it does for every name at the start; ListDrivers returns exactly the
\* registered names, each once.
C14_RegistryMap ==
  /\ \A name \in LookupNames : GetDriver(drivers, name) = NotRegistered(name)
  /\ [][C14_Step]_vars

\* "mydb" was registered with the ClickHouse driver and then with the MySQL
\* driver, which "pg" shares; a ListDrivers call returned both names.
C14_Witness ==
  /\ DOMAIN drivers = {"mydb", "pg"}
  /\ drivers["mydb"] = MySQLDriver
  /\ drivers["pg"] = MySQLDriver
  /\ \E g, h \in Goroutines :
       /\ goroutines[g].pc = "idle"
       /\ goroutines[g].call = "RegisterDriver"
       /\ goroutines[g].name = "mydb"
       /\ goroutines[g].driver = ClickHouseDriver
       /\ goroutines[g].ret.panic = ""
       /\ goroutines[h].pc = "idle"
       /\ goroutines[h].call = "ListDrivers"
       /\ goroutines[h].ret.names = <<"pg", "mydb">>


Panicked(g) ==
  /\ goroutines[g].call = "RegisterDriver"
  /\ goroutines[g].pc = "idle"
  /\ goroutines[g].ret.panic # ""

C15_Step ==
  \A g \in Goroutines :
    /\ (RegisterBody(g) /\ goroutines[g].driver = NilDriver) =>
         /\ goroutines'[g].ret.panic = "where: RegisterDriver driver is nil"
         /\ drivers' = drivers
         /\ goroutines'[g].pc = "Unlock"
    /\ (RegisterBody(g) /\ goroutines[g].driver # NilDriver /\ goroutines[g].name = "") =>
         /\ goroutines'[g].ret.panic = "where: RegisterDriver name is empty"
         /\ drivers' = drivers
         /\ goroutines'[g].pc = "Unlock"
    /\ (RegisterBody(g) /\ goroutines[g].driver # NilDriver /\ goroutines[g].name # "") =>
         goroutines'[g].ret.panic = ""
    /\ Unlock(g) => driversMu'.writer = 0

\* C15: RegisterDriver panics on a nil driver and on an empty name, with the
\* map left as it was, and its deferred Unlock still runs: once the panicking
\* call is over the write lock is held only while some other call is inside
\* its write section, so a Lock is granted when no call is inside a section
\* and an RLock when no call is inside a write section.
C15_PanicReleasesLock ==
  /\ [](\A g \in Goroutines : Panicked(g) =>
          /\ (\A h \in Goroutines : ~ InsideWrite(h)) => CanRLock(driversMu)
          /\ (\A h \in Goroutines : ~ InsideWrite(h) /\ ~ InsideRead(h)) => CanLock(driversMu))
  /\ [][C15_Step]_vars

\* After one call panicked on the empty name, another call got the write
\* lock.
C15_Witness ==
  \E g, h \in Goroutines :
    /\ Panicked(g)
    /\ goroutines[g].ret.panic = "where: RegisterDriver name is empty"
    /\ goroutines[h].pc = "register"
    /\ driversMu.writer = h


\* C16: no GetDriver or ListDrivers is inside its critical section while a
\* RegisterDriver is inside its own, and no two RegisterDriver calls are
\* inside theirs together; readers are not excluded by readers.  A GetDriver
\* that has read the map holds what the map holds for its name, which is the
\* driver registered before or the one registered after any registration
\* running beside it, and never a fatal error or another value.
C16_ReadersWriterExclusion ==
  /\ \A g, h \in Goroutines :
       (g # h /\ InsideWrite(g)) => (~ InsideWrite(h) /\ ~ InsideRead(h))
  /\ \A g \in Goroutines :
       (goroutines[g].pc = "RUnlock" /\ goroutines[g].call = "GetDriver") =>
         LET ret == goroutines[g].ret
             name == goroutines[g].name
         IN /\ ret.panic = ""
            /\ IF name \in DOMAIN drivers
                 THEN ret.driver = drivers[name] /\ ret.err = Nil
                 ELSE ret.driver = NilDriver /\ ret.err = NotRegistered(name).err
  /\ driversMu.readers = {g \in Goroutines : InsideRead(g)}
  /\ \A g \in Goroutines : InsideWrite(g) <=> driversMu.writer = g

\* Two GetDriver calls are inside the read section together, one of them
\* having read the driver registered for "mydb".
C16_Witness ==
  \E g, h \in Goroutines :
    /\ g # h
    /\ goroutines[g].pc = "RUnlock"
    /\ goroutines[g].call = "GetDriver"
    /\ goroutines[g].name = "mydb"
    /\ goroutines[g].ret.driver = MySQLDriver
    /\ goroutines[h].pc = "get"
    /\ driversMu.readers = {g, h}


\* The same call made once more, with the registry, the filter and the
\* validator as the last call left them.
Again == ToSQL(drivers, filter, last.arg, validator)

SharedInputs ==
  {"a = 1 OR b = 'x' OR c IN (2, 3)", "a = 1 AND b = 2", "LOWER(name) = 'x' OR age > 5",
   "a = 1 OR name LIKE '%y%' OR b = 2"}

SharedValidators == {Nil, ValidatorAllowFields(NewValidator, <<"a", "b", "c">>)}

SharedDriverNames == {"postgres", "mysql", "nonexistent"}

IdleToSQL ==
  [pc |-> "idle", arg |-> "", builder |-> Nil, terms |-> <<>>, parts |-> <<>>,
   ret |-> Returned(NoReturn)]

InitShared ==
  /\ drivers = InitialDrivers
  /\ validator \in SharedValidators
  /\ parser = NewParser(<<>>)
  /\ filter \in {Parse(input).filter : input \in SharedInputs} \cup {Nil}
  /\ last = Outcome("init", "", NoReturn)
  /\ driversMu = UnlockedMutex
  /\ goroutines = [g \in Goroutines |-> IdleToSQL]

CallToSQL(g, driverName) ==
  /\ goroutines[g].pc \in {"idle", "returned"}
  /\ goroutines' = [goroutines EXCEPT ![g] = [IdleToSQL EXCEPT !.pc = "GetDriver", !.arg = driverName]]
  /\ UNCHANGED <<drivers, validator, parser, filter, last, driversMu>>

\* driver, err := GetDriver(driverName); builder := &SQLBuilder{...}; the
\* options; the empty-filter check.
ToSQLNewBuilder(g) ==
  LET call == goroutines[g]
      got == GetDriver(drivers, call.arg)
  IN /\ call.pc = "GetDriver"
     /\ goroutines' =
          IF got.err # Nil
            THEN [goroutines EXCEPT ![g].pc = "returned",
                   ![g].ret = [sql |-> "", params |-> NilSlice,
                               err |-> <<"failed to get driver " \o GoQuote(call.arg) \o ": " \o got.err[1]>>]]
          ELSE IF filter = Nil \/ filter.Expression = Nil
            THEN [goroutines EXCEPT ![g].pc = "returned",
                   ![g].ret = [sql |-> "", params |-> NilSlice, err |-> <<"empty filter">>]]
          ELSE [goroutines EXCEPT ![g].pc = "buildExpression",
                   ![g].terms = filter.Expression.Or,
                   ![SQLBuilderOf(g)].builder =
                      [driver |-> got.driver, params |-> <<>>, validator |-> validator,
                       calls |-> <<>>]]
     /\ UNCHANGED <<drivers, validator, parser, filter, last, driversMu>>

\* part, err := b.buildTerm(term), for the next term of expr.Or
ToSQLBuildTerm(g) ==
  LET call == goroutines[g]
      r == buildTerm(goroutines[SQLBuilderOf(g)].builder, Head(call.terms))
  IN /\ call.pc = "buildExpression"
     /\ call.terms # <<>>
     /\ goroutines' =
          IF r.err # Nil
            THEN [goroutines EXCEPT ![SQLBuilderOf(g)].builder = r.b,
                   ![g].pc = "returned",
                   ![g].ret = [sql |-> "", params |-> NilSlice, err |-> r.err]]
            ELSE [goroutines EXCEPT ![SQLBuilderOf(g)].builder = r.b,
                   ![g].terms = Tail(call.terms),
                   ![g].parts = Append(call.parts, r.sql)]
     /\ UNCHANGED <<drivers, validator, parser, filter, last, driversMu>>

\* return sql, builder.params, nil
ToSQLReturn(g) ==
  LET call == goroutines[g]
  IN /\ call.pc = "buildExpression"
     /\ call.terms = <<>>
     /\ goroutines' = [goroutines EXCEPT ![g].pc = "returned",
          ![g].ret = [sql |-> IF Len(call.parts) = 1 THEN call.parts[1]
                              ELSE "(" \o Join(call.parts, " OR ") \o ")",
                      params |-> goroutines[SQLBuilderOf(g)].builder.params,
                      err |-> Nil]]
     /\ UNCHANGED <<drivers, validator, parser, filter, last, driversMu>>

NextShared ==
  \/ \E g \in Goroutines, driverName \in SharedDriverNames : CallToSQL(g, driverName)
  \/ \E g \in Goroutines : ToSQLNewBuilder(g)
  \/ \E g \in Goroutines : ToSQLBuildTerm(g)
  \/ \E g \in Goroutines : ToSQLReturn(g)

SpecShared == InitShared /\ [][NextShared]_vars

C18_Step ==
  /\ UNCHANGED <<filter, validator, drivers>>
  /\ \A g \in Goroutines :
       (ToSQLNewBuilder(g) \/ ToSQLBuildTerm(g) \/ ToSQLReturn(g)) =>
         \A h \in Goroutines \ {g} : goroutines'[h] = goroutines[h]
  /\ \A g \in Goroutines :
       (ToSQLBuildTerm(g) /\ goroutines[g].builder # Nil /\ goroutines'[g].builder # Nil) =>
          /\ Len(goroutines'[g].builder.params) >= Len(goroutines[g].builder.params)
          /\ SubSeq(goroutines'[g].builder.params, 1, Len(goroutines[g].builder.params))
               = goroutines[g].builder.params

\* C18: no step of a ToSQL call changes the Filter, the Validator or the
\* registry, and a step changes nothing of another call: it only appends to
\* the params of its own builder.  So every one of several ToSQL calls running
\* together on one Filter returns the SQL, the params and the error it
\* returns when it runs alone.
C18_SharedFilter ==
  /\ [](\A g \in Goroutines : goroutines[g].pc = "returned" =>
          goroutines[g].ret = Returned(ToSQL(drivers, filter, goroutines[g].arg, validator)))
  /\ [][C18_Step]_vars

\* Two calls on the three-term filter ran together: the postgres call has
\* returned its four parameters while the MySQL call, two terms built, holds
\* two parameters of its own.
C18_Witness ==
  /\ filter = Parse("a = 1 OR b = 'x' OR c IN (2, 3)").filter
  /\ goroutines[1].pc = "returned"
  /\ goroutines[1].arg = "postgres"
  /\ goroutines[1].ret.sql = "(a = $1 OR b = $2 OR c IN ($3, $4))"
  /\ goroutines[1].ret.params = <<[n |-> 1], [s |-> "x"], [n |-> 2], [n |-> 3]>>
  /\ goroutines[2].pc = "buildExpression"
  /\ goroutines[2].arg = "mysql"
  /\ Len(goroutines[2].builder.params) = 2


\* ------------------------------------------------------------------
\* Identifier quoting.  The calls are QuoteIdentifier on a name, QuoteIdentifier
\* on what the last call returned, and the Parse-then-ToSQL of the
\* reserved-keywords example.
\* ------------------------------------------------------------------

ReferenceDrivers == {PostgreSQLDriver, MySQLDriver, ClickHouseDriver}

IdentifierParts ==
  {"order", "ORDER", "Order", "select", "users", "user_id", "_x", "X9", "1st", "a-b",
   "my col", "a\"b", "a" \o Backtick \o "b", "naïve"}

IdentifierNames ==
  IdentifierParts
    \cup {p \o "." \o q : p \in {"users", "order"}, q \in IdentifierParts}
    \cup {"\"order\"", Backtick \o "order" \o Backtick, " order ", "\"users\".\"order\"",
          "\"", Backtick, "a-b.order.c", "users."}

ReservedKeywordsExample ==
  "user = 'admin' AND order > 100 AND select NOT IN ('draft', 'deleted')"

KeywordInputs ==
  {"order > 100", "ORDER > 100", "Order > 100", "users.order > 100", "users.name > 100",
   ReservedKeywordsExample}

QuoteOutcome(d, name) ==
  [op |-> "QuoteIdentifier", arg |-> name, driver |-> d,
   sql |-> IF QuoteIdentifierPanics(d, name) THEN "" ELSE QuoteIdentifier(d, name),
   params |-> NilSlice,
   err |-> IF QuoteIdentifierPanics(d, name) THEN <<"panic", "slice bounds out of range">> ELSE Nil,
   calls |-> <<>>]

CallQuoteIdentifier(d, name) ==
  /\ last' = QuoteOutcome(d, name)
  /\ UNCHANGED <<drivers, validator, parser, filter, driversMu, goroutines>>

\* QuoteIdentifier on what QuoteIdentifier returned for one of the names.
QuoteAgain ==
  /\ last.op = "QuoteIdentifier"
  /\ last.err = Nil
  /\ last.arg \in IdentifierNames
  /\ last' = QuoteOutcome(last.driver, last.sql)
  /\ UNCHANGED <<drivers, validator, parser, filter, driversMu, goroutines>>

KeywordFilters == [input \in KeywordInputs |-> Parse(input).filter]

ExampleReservedKeywords(input, driverName) ==
  /\ filter' = KeywordFilters[input]
  /\ last' = Outcome("ToSQL", driverName, ToSQL(drivers, KeywordFilters[input], driverName, Nil))
  /\ UNCHANGED <<drivers, validator, parser, driversMu, goroutines>>

NextQuote ==
  \/ \E d \in ReferenceDrivers, name \in IdentifierNames : CallQuoteIdentifier(d, name)
  \/ QuoteAgain
  \/ \E input \in KeywordInputs, d \in ReferenceDrivers : ExampleReservedKeywords(input, d)

SpecQuote == Init /\ [][NextQuote]_vars

\* The part between the dialect's quote characters, the quote character
\* doubled inside.
Wrapped(d, part) ==
  QuoteChar(d) \o ReplaceAll(part, QuoteChar(d), QuoteChar(d) \o QuoteChar(d)) \o QuoteChar(d)

PlainChars == "abcdefghijklmnopqrstuvwxyzABCDEFGHIJKLMNOPQRSTUVWXYZ0123456789_"

QuotingRule(d, part) ==
  \/ ToUpper(part) \in Keywords(d)
  \/ Head(part) \in {"0", "1", "2", "3", "4", "5", "6", "7", "8", "9"}
  \/ \E i \in 1..Len(part) : ~ Contains(PlainChars, SubSeq(part, i, i))

Emitted(d, part) ==
  IF part # "" /\ QuotingRule(d, part) THEN Wrapped(d, part) ELSE part

RECURSIVE EmittedParts(_, _)
EmittedParts(d, parts) ==
  IF Len(parts) = 0 THEN <<>>
  ELSE <<Emitted(d, parts[1])>> \o EmittedParts(d, Tail(parts))

\* A name QuoteIdentifier takes as it is written: no space around it and not
\* inside a pair of quote characters of either dialect.
IsPlainName(name) ==
  /\ name # ""
  /\ TrimSpace(name) = name
  /\ ~ (HasPrefix(name, "\"") /\ HasSuffix(name, "\""))
  /\ ~ (HasPrefix(name, Backtick) /\ HasSuffix(name, Backtick))

OrderQuoted(d) == QuoteChar(d) \o "order" \o QuoteChar(d)

\* C19: a reference driver emits a non-empty identifier part wrapped in its
\* quote character iff the part's upper-cased form is a keyword of the driver,
\* or its first character is a digit, or it has a character outside
\* [A-Za-z0-9_], and bare otherwise; a dotted name is emitted part by part
\* under that rule.  order, ORDER and Order come out quoted from every
\* reference driver, alone and as a part of users.order.
C19_QuotingRule ==
  /\ last.op = "QuoteIdentifier" =>
       /\ \A part \in IdentifierParts :
            quoteSimpleIdentifier(last.driver, part) = Emitted(last.driver, part)
       /\ IsPlainName(last.arg) =>
            /\ last.err = Nil
            /\ last.sql = Join(EmittedParts(last.driver, Split(last.arg, ".")), ".")
       /\ last.arg \in {"order", "ORDER", "Order"} =>
            last.sql = QuoteChar(last.driver) \o last.arg \o QuoteChar(last.driver)
       /\ last.arg = "users.order" => last.sql = "users." \o OrderQuoted(last.driver)
  /\ (last.op = "ToSQL" /\ last.arg \in ReferenceDrivers) =>
       /\ last.err = Nil
       /\ filter = KeywordFilters["order > 100"] =>
            last.sql = OrderQuoted(last.arg) \o " > " \o Placeholder(last.arg, 1)
       /\ filter = KeywordFilters["ORDER > 100"] =>
            last.sql = Wrapped(last.arg, "ORDER") \o " > " \o Placeholder(last.arg, 1)
       /\ filter = KeywordFilters["Order > 100"] =>
            last.sql = Wrapped(last.arg, "Order") \o " > " \o Placeholder(last.arg, 1)
       /\ filter = KeywordFilters["users.order > 100"] =>
            last.sql = "users." \o OrderQuoted(last.arg) \o " > " \o Placeholder(last.arg, 1)
       /\ filter = KeywordFilters["users.name > 100"] =>
            last.sql = "users.name > " \o Placeholder(last.arg, 1)
       /\ filter = KeywordFilters[ReservedKeywordsExample] =>
            last.sql = "(" \o Wrapped(last.arg, "user") \o " = " \o Placeholder(last.arg, 1)
                        \o " AND " \o OrderQuoted(last.arg) \o " > " \o Placeholder(last.arg, 2)
                        \o " AND " \o Wrapped(last.arg, "select") \o " NOT IN ("
                        \o Placeholder(last.arg, 3) \o ", " \o Placeholder(last.arg, 4) \o "))"

\* PostgreSQL's QuoteIdentifier was given users.order and returned
\* users."order".
C19_Witness ==
  /\ last.op = "QuoteIdentifier"
  /\ last.driver = PostgreSQLDriver
  /\ last.arg = "users.order"
  /\ last.sql = "users.\"order\""


\* C20: QuoteIdentifier of every reference driver is idempotent: applied to
\* what it returned for a name, it returns the same again, dotted names
\* quoted part by part included.
C20_Idempotent ==
  (last.op = "QuoteIdentifier" /\ last.err = Nil) =>
    /\ ~ QuoteIdentifierPanics(last.driver, last.sql)
    /\ QuoteIdentifier(last.driver, last.sql) = last.sql

\* PostgreSQL's QuoteIdentifier was given its own users."order" and returned
\* users."""order""".
C20_Witness ==
  /\ last.op = "QuoteIdentifier"
  /\ last.driver = PostgreSQLDriver
  /\ last.arg = "users.\"order\""
  /\ last.sql = "users.\"\"\"order\"\"\""


\* ------------------------------------------------------------------
\* The documented examples and the inputs of the lexer tests: each is
\* parsed with the package-level Parse and compiled for a driver name.
\* ------------------------------------------------------------------

\* README, "SQL Injection Prevention".
InjectionExample == "name = 'Robert'); DROP TABLE users; --'"

\* The same value with its inner quote escaped as the String rule allows.
EscapedInjectionExample == "name = 'Robert\\'); DROP TABLE users; --'"

\* A field written as a backtick token.
BacktickField(content) == Backtick \o content \o Backtick

\* A backtick token whose content starts and ends with a double quote.
QuotedContentField == BacktickField("\"x\" = 1; DROP TABLE t; --\"")

FieldInputs ==
  {BacktickField("my col") \o " = 1", BacktickField("a.b") \o " = 1",
   BacktickField("select") \o " = 1", BacktickField("a\"b") \o " = 1",
   BacktickField(" ") \o " = 1", BacktickField("x; DROP TABLE t") \o " = 1",
   "users." \o BacktickField("first name") \o " = 1",
   "\"users\".\"order\" = 1", "_id9 = 1",
   QuotedContentField \o " = 1"}

\* Function calls with the argument counts the drivers' tables have a row
\* for, and with others.
FunctionInputs ==
  {"created_at > NOW()", "NOW(1) > a", "LOWER() = 'x'", "LOWER(a, 'b') = 'c'",
   "UPPER(LOWER('x')) = NOW()", "CONCAT() = 'x'", "CONCAT('a', b, 'c') = 'd'",
   "SUBSTRING(name, 1, 2) = 'ab'", "SUBSTRING('abc', 2) = x", "SUBSTRING(name) = 'a'",
   "BAD(1) = 2"}

\* Filters with several literals in each kind of operation.
OrderInputs ==
  {"a = 1 AND b != 'x' OR c < 3",
   "name ILIKE '%j%' AND id IN (1, 2, 3)",
   "CONCAT('a', b, 'c') LIKE '%x%' AND n BETWEEN 1 AND 5",
   "SUBSTRING(name, 1, 2) NOT ILIKE LOWER('A') OR a NOT BETWEEN 3 AND UPPER('z')",
   "id NOT IN (LOWER('a'), 2, CONCAT('b', 'c')) AND x = TRUE AND y IS NULL AND z = 9"}

ExampleInputs ==
  FieldInputs \cup FunctionInputs \cup OrderInputs \cup
  {InjectionExample, EscapedInjectionExample,
   "name = 'x'; DROP TABLE users",
   "name = 'hello'", "name = \"hello\"", "name = \"hello world\"", "name = \"\"",
   "\"order\" = \"Order\"", "\"2x\" = 1", "name = \"a\\\"b\"",
   "x = (a = 1)", "x = (a = 1 AND b = 2)", "x = (a = 1 OR b = 2)",
   "x BETWEEN (a = 1) AND (b = 2)", "x IN ((a = 1), 2)", "x LIKE (a = 'p')",
   "LOWER((a = 1)) = 'y'", "x = ((a = 1))", "(x = 1)"}

ExampleTable == [input \in ExampleInputs |-> Parse(input)]

\* filter, err := where.Parse(input)
ParseExample(input) ==
  /\ filter' = ExampleTable[input].filter
  /\ last' = Outcome("Parse", input, [NoReturn EXCEPT !.err = ExampleTable[input].err])
  /\ UNCHANGED <<drivers, validator, parser, driversMu, goroutines>>

NextExamples ==
  \/ \E input \in ExampleInputs : ParseExample(input)
  \/ \E driverName \in DriverNames : Compile(driverName)

SpecExamples == Init /\ [][NextExamples]_vars

\* C21: the README's injection example parses, and its Filter compiles for
\* postgres to name = $1 with the one parameter Robert'); DROP TABLE users; --
C21_ReadmeInjectionExample ==
  (last.op = "Parse" /\ last.arg = InjectionExample) =>
    /\ last.err = Nil
    /\ filter # Nil
    /\ Returned(ToSQL(drivers, filter, "postgres", Nil))
         = [sql |-> "name = $1", params |-> <<[s |-> "Robert'); DROP TABLE users; --"]>>,
            err |-> Nil]

\* Parse has returned a nil Filter and the lexer's error for the README's
\* input.
C21_Witness ==
  /\ last.op = "Parse"
  /\ last.arg = InjectionExample
  /\ filter = Nil
  /\ last.err # Nil


\* [A-Za-z_][A-Za-z0-9_]*
IsBareIdentifier(s) ==
  /\ s # ""
  /\ Head(s) \notin DigitSet
  /\ \A i \in 1..Len(s) : Contains(PlainChars, SubSeq(s, i, i))

\* One identifier between the dialect's quote characters, every quote
\* character inside it doubled.
IsQuotedIdentifier(d, s) ==
  /\ Len(s) >= 3
  /\ Head(s) = QuoteChar(d)
  /\ SubSeq(s, Len(s), Len(s)) = QuoteChar(d)
  /\ ~ Contains(ReplaceAll(StripEnds(s), QuoteChar(d) \o QuoteChar(d), ""), QuoteChar(d))

IsQuoteIdentifierCall(call) == call.fn = "QuoteIdentifier"

\* C22: every field part a successful ToSQL emits for a parsed Filter is a
\* bare identifier [A-Za-z_][A-Za-z0-9_]* or one identifier between the
\* dialect's quote characters with every inner quote character doubled, for
\* each reference driver.
C22_FieldPartsSafe ==
  (last.op = "ToSQL" /\ last.err = Nil) =>
    \A k \in DOMAIN SelectSeq(last.calls, IsQuoteIdentifierCall) :
      LET d == GetDriver(drivers, last.arg).driver
          emitted == QuoteIdentifier(d, SelectSeq(last.calls, IsQuoteIdentifierCall)[k].arg)
      IN IsBareIdentifier(emitted) \/ IsQuotedIdentifier(d, emitted)

\* The postgres compile of the backtick token whose content starts and ends
\* with a double quote: the content is the SQL.
C22_Witness ==
  /\ last.op = "ToSQL"
  /\ last.arg = "postgres"
  /\ filter = ExampleTable[QuotedContentField \o " = 1"].filter
  /\ last.err = Nil
  /\ last.sql = "\"x\" = 1; DROP TABLE t; --\" = $1"


\* ------------------------------------------------------------------
\* Programs that register drivers of their own and compile filters of
\* every operation kind for them and for the reference drivers.
\* ------------------------------------------------------------------

OperatorInputs ==
  {"name ILIKE '%john%'", "name NOT ILIKE '%john%'", "name LIKE 'a%'", "name NOT LIKE 'a%'",
   "a = 1", "a > 1 AND b != 2", "a BETWEEN 1 AND 5", "a NOT BETWEEN 1 AND 5",
   "a IN (1, 2)", "a NOT IN (1)", "a IS NULL", "a IS NOT NULL", "a < 1 OR b LIKE 'x'"}

OperatorTable == [input \in OperatorInputs |-> Parse(input)]

\* The drivers that override TranslateOperator.
OperatorDrivers == {"tidb", "mysqlnative", "strict", "nolike"}

CustomDriverNames == OperatorDrivers \cup {"postgres", "mysql", "clickhouse"}

\* filter, err := where.Parse(input)
ParseOperators(input) ==
  /\ filter' = OperatorTable[input].filter
  /\ last' = Outcome("Parse", input, [NoReturn EXCEPT !.err = OperatorTable[input].err])
  /\ UNCHANGED <<drivers, validator, parser, driversMu, goroutines>>

NextCustom ==
  \/ \E d \in OperatorDrivers : Register(d, d)
  \/ \E input \in OperatorInputs : ParseOperators(input)
  \/ \E driverName \in CustomDriverNames : Compile(driverName)

SpecCustom == Init /\ [][NextCustom]_vars

\* C23: for a driver whose TranslateOperator maps ILIKE onto LIKE (NOT ILIKE
\* onto NOT LIKE), whatever its Name() returns, both the left operand and the
\* pattern of an ILIKE operation are wrapped in LOWER(...); for a driver that
\* returns ILIKE itself neither is.
C23_LowerFollowsTranslateOperator ==
  (/\ last.op = "ToSQL"
   /\ last.arg \in DOMAIN drivers
   /\ filter \in {ILikeFilter, NotILikeFilter}) =>
    LET d == drivers[last.arg]
        not == IF filter = NotILikeFilter THEN "NOT " ELSE ""
        translated == TranslateOperator(d, not \o "ILIKE")
    IN translated.ok =>
         /\ last.err = Nil
         /\ translated.text = not \o "LIKE" =>
              last.sql = "LOWER(name) " \o not \o "LIKE LOWER(" \o Placeholder(d, 1) \o ")"
         /\ translated.text = not \o "ILIKE" =>
              last.sql = "name " \o not \o "ILIKE " \o Placeholder(d, 1)

\* The driver named tidb maps ILIKE onto LIKE; name ILIKE '%john%' has been
\* compiled for it with no LOWER around either operand.
C23_Witness ==
  /\ last.op = "ToSQL"
  /\ last.arg = "tidb"
  /\ "tidb" \in DOMAIN drivers
  /\ filter = ILikeFilter
  /\ TranslateOperator(drivers["tidb"], "ILIKE").text = "LIKE"
  /\ DriverName(drivers["tidb"]) = "tidb"
  /\ last.err = Nil
  /\ last.sql = "name LIKE ?"


\* ---------------------------------------------------------------------------
\* C24: expressions in parentheses used as Values and the depth limit
\* ---------------------------------------------------------------------------

\* The longest chain of expressions in parentheses nested inside one another,
\* whether each is a Factor or a Value (the right side of a comparison, a
\* BETWEEN bound, an IN item, a LIKE pattern, a function argument).
RECURSIVE NestingOfExpression(_), NestingOfTerms(_), NestingOfFactors(_),
          NestingOfOperation(_), NestingOfValue(_), NestingOfValues(_)
NestingOfValues(values) ==
  IF Len(values) = 0 THEN 0
  ELSE Max(NestingOfValue(values[1]), NestingOfValues(Tail(values)))

NestingOfValue(val) ==
  IF val = Nil THEN 0
  ELSE IF val.Function # Nil THEN NestingOfValues(val.Function.Args)
  ELSE IF val.SubExpr # Nil THEN 1 + NestingOfExpression(val.SubExpr)
  ELSE 0

NestingOfOperation(op) ==
  IF op = Nil THEN 0
  ELSE IF op.Compare # Nil THEN NestingOfValue(op.Compare.Right)
  ELSE IF op.Like # Nil THEN NestingOfValue(op.Like.Pattern)
  ELSE IF op.Between # Nil
    THEN Max(NestingOfValue(op.Between.Lower), NestingOfValue(op.Between.Upper))
  ELSE IF op.In # Nil THEN NestingOfValues(op.In.Values)
  ELSE 0

NestingOfFactors(factors) ==
  IF Len(factors) = 0 THEN 0
  ELSE Max(IF factors[1].SubExpr # Nil THEN 1 + NestingOfExpression(factors[1].SubExpr)
           ELSE IF factors[1].Predicate # Nil
             THEN Max(NestingOfValue(factors[1].Predicate.Left),
                      NestingOfOperation(factors[1].Predicate.Operation))
           ELSE 0,
           NestingOfFactors(Tail(factors)))

NestingOfTerms(terms) ==
  IF Len(terms) = 0 THEN 0
  ELSE Max(NestingOfFactors(terms[1].And), NestingOfTerms(Tail(terms)))

NestingOfExpression(expr) == IF expr = Nil THEN 0 ELSE NestingOfTerms(expr.Or)

TotalNesting(f) == IF f = Nil THEN 0 ELSE NestingOfExpression(f.Expression)

\* C24: an expression in parentheses used as a Value counts toward maxDepth
\* as one used as a Factor does: a filter that Parser.Parse accepts has no
\* chain of nested expressions in parentheses, through Factors and Values
\* together, longer than the parser's maxDepth, and a filter with a longer
\* chain is rejected.
C24_ValueDepthCounts ==
  last.op = "Parser.Parse" =>
    LET parsed == ParseString(last.arg)
    IN /\ (last.err = Nil /\ filter # Nil) => TotalNesting(filter) <= parser.maxDepth
       /\ (parsed.err = Nil /\ TotalNesting(parsed.filter) > parser.maxDepth) => last.err # Nil

\* "((a = ((b = 1))))" nests four expressions in parentheses, two as Factors
\* and two inside the Value, and the parser whose limit is 2 accepts it.
C24_Witness ==
  /\ last.op = "Parser.Parse"
  /\ last.arg = "((a = ((b = 1))))"
  /\ parser = NewParser(<<WithMaxDepth(2)>>)
  /\ last.err = Nil
  /\ TotalNesting(filter) = 4
  /\ FactorDepth(filter) = 2


\* ---------------------------------------------------------------------------
\* C25: an expression in parentheses used as a Value keeps its parentheses
\* ---------------------------------------------------------------------------

\* The SQL of an expression as one group: as it is when parentheses already
\* enclose it, inside a pair of parentheses otherwise.
Grouped(sql) == IF HasPrefix(sql, "(") /\ HasSuffix(sql, ")") THEN sql ELSE "(" \o sql \o ")"

SubExprValues(f) == SelectSeq(ValuesOf(f), IsSubExpr)

SingleComparisonValue == ExampleTable["x = (a = 1)"].filter

\* C25: in the SQL of a successful ToSQL, each expression in parentheses used
\* as a Value (an operand of a comparison, of BETWEEN, of IN, of LIKE, or a
\* function argument) appears as the Expression rule renders it and inside
\* parentheses, also when it is one term of one predicate: the grouping of
\* x = (a = 1) is that of the emitted SQL.
C25_ValueSubExprGrouped ==
  (last.op = "ToSQL" /\ last.err = Nil /\ filter # Nil) =>
    /\ last.arg \in {"mysql", "mariadb", "clickhouse"} =>
         \A k \in DOMAIN SubExprValues(filter) :
           Contains(last.sql,
                    Grouped(buildExpression(LastBuilder, SubExprValues(filter)[k].SubExpr).sql))
    /\ (last.arg = "postgres" /\ filter = SingleComparisonValue) => last.sql = "x = (a = $1)"

\* x = (a = 1) compiled for postgres: the operand is rendered by the
\* Expression rule, and no parentheses are around it.
C25_Witness ==
  /\ last.op = "ToSQL"
  /\ last.arg = "postgres"
  /\ filter = SingleComparisonValue
  /\ SingleComparisonValue.Expression.Or[1].And[1].Predicate.Operation.Compare.Right.SubExpr # Nil
  /\ last.err = Nil
  /\ last.sql = "x = a = $1"


\* ---------------------------------------------------------------------------
\* C26: the slots of a function template and the arguments of the call
\* ---------------------------------------------------------------------------

\* The number of %s verbs of a template.
RECURSIVE CountSlots(_)
CountSlots(template) ==
  IF Len(template) < 2 THEN 0
  ELSE IF SubSeq(template, 1, 2) = "%s" THEN 1 + CountSlots(SubSeq(template, 3, Len(template)))
  ELSE CountSlots(Tail(template))

IsTranslateFunctionCall(call) == call.fn = "TranslateFunction"

TranslatedCalls(calls) == SelectSeq(calls, IsTranslateFunctionCall)

\* C26: for every function call of a filter that ToSQL accepts, the template
\* the driver returned for the name and the argument count has exactly that
\* many slots, so that each rendered argument is in the SQL once and the SQL
\* has no unfilled slot and nothing left over from formatting; a call with an
\* argument count the driver has no row for (NOW with one argument, LOWER
\* with none or two) is rejected as unsupported.
C26_TemplateSlots ==
  (last.op = "ToSQL" /\ last.err = Nil /\ filter # Nil) =>
    /\ \A k \in DOMAIN TranslatedCalls(last.calls) :
         LET call == TranslatedCalls(last.calls)[k]
         IN CountSlots(TranslateFunction(LastBuilder.driver, call.arg, call.n).template) = call.n
    /\ ~ Contains(last.sql, "%")
    /\ filter \notin {ExampleTable["NOW(1) > a"].filter, ExampleTable["LOWER() = 'x'"].filter,
                      ExampleTable["LOWER(a, 'b') = 'c'"].filter}

\* NOW(1) compiled for postgres: the template NOW() has no slot for the
\* argument, and what fmt.Sprintf does with the argument is in the SQL.
C26_Witness ==
  /\ last.op = "ToSQL"
  /\ last.arg = "postgres"
  /\ filter = ExampleTable["NOW(1) > a"].filter
  /\ filter # Nil
  /\ last.err = Nil
  /\ last.sql = "NOW()%!(EXTRA string=$1) > a"
  /\ last.params = <<[n |-> 1]>>


\* ---------------------------------------------------------------------------
\* C27: the placeholders of the SQL are in the order of the parameters
\* ---------------------------------------------------------------------------

\* The index of the first mark of the SQL, 0 when it has none.
FirstMark(sql, mark) ==
  IF \E i \in 1..Len(sql) : SubSeq(sql, i, i) = mark
    THEN CHOOSE i \in 1..Len(sql) :
           /\ SubSeq(sql, i, i) = mark
           /\ \A j \in 1..(i - 1) : SubSeq(sql, j, j) # mark
    ELSE 0

\* The number of digits at the head of s.
RECURSIVE DigitRun(_)
DigitRun(s) == IF s # "" /\ Head(s) \in DigitSet THEN 1 + DigitRun(Tail(s)) ELSE 0

\* The decimal number the digits of s write.
RECURSIVE ReadNumber(_, _)
ReadNumber(s, n) ==
  IF s = "" THEN n
  ELSE ReadNumber(Tail(s), 10 * n + (CHOOSE k \in 0..9 : Itoa(k) = Head(s)))

\* The positions written after each mark of the SQL, from left to right.
RECURSIVE MarkedPositions(_, _)
MarkedPositions(sql, mark) ==
  IF FirstMark(sql, mark) = 0 THEN <<>>
  ELSE LET rest == SubSeq(sql, FirstMark(sql, mark) + 1, Len(sql))
       IN <<ReadNumber(SubSeq(rest, 1, DigitRun(rest)), 0)>>
          \o MarkedPositions(SubSeq(rest, DigitRun(rest) + 1, Len(rest)), mark)

\* The SQL with each mark and its position written as "?".
RECURSIVE Unmarked(_, _)
Unmarked(sql, mark) ==
  IF FirstMark(sql, mark) = 0 THEN sql
  ELSE LET rest == SubSeq(sql, FirstMark(sql, mark) + 1, Len(sql))
       IN SubSeq(sql, 1, FirstMark(sql, mark) - 1) \o "?"
          \o Unmarked(SubSeq(rest, DigitRun(rest) + 1, Len(rest)), mark)

\* The registry in which each "?" driver is replaced by the driver that
\* embeds it and writes the position into its placeholder.
MarkedDrivers ==
  [n \in DOMAIN InitialDrivers |->
     IF InitialDrivers[n] = MySQLDriver THEN "mysqlmarked"
     ELSE IF InitialDrivers[n] = ClickHouseDriver THEN "clickhousemarked"
     ELSE InitialDrivers[n]]

MarkOf(d) == IF d = PostgreSQLDriver THEN "$" ELSE CustomDrivers[d].placeholder

\* C27: in the SQL of a successful ToSQL the placeholders are, from left to
\* right, those of params[1], params[2], ...: for postgres the numbers are
\* 1, 2, ... in the order of the text, and for a "?" driver the k-th "?" is
\* the one written for params[k], as the same compile shows when the driver's
\* Placeholder writes the position it is given.
C27_PlaceholderOrder ==
  (last.op = "ToSQL" /\ last.err = Nil /\ filter # Nil /\ last.arg \in DOMAIN InitialDrivers) =>
    LET marked == ToSQL(MarkedDrivers, filter, last.arg, validator)
        mark == MarkOf(MarkedDrivers[last.arg])
    IN /\ marked.err = Nil
       /\ marked.params = last.params
       /\ last.arg \in {"postgres"} => marked.sql = last.sql
       /\ last.arg \notin {"postgres"} => Unmarked(marked.sql, mark) = last.sql
       /\ MarkedPositions(marked.sql, mark) = [k \in 1..Len(last.params) |-> k]

\* A successful mysql compile with a LOWER rewrite and an IN list, and a
\* clickhouse compile with function templates, LIKE and BETWEEN.
C27_Witness ==
  /\ last.op = "ToSQL"
  /\ last.err = Nil
  /\ \/ /\ last.arg = "mysql"
        /\ filter = ExampleTable["name ILIKE '%j%' AND id IN (1, 2, 3)"].filter
        /\ last.sql = "(LOWER(name) LIKE LOWER(?) AND id IN (?, ?, ?))"
        /\ ToSQL(MarkedDrivers, filter, "mysql", Nil).sql
             = "(LOWER(name) LIKE LOWER(@1) AND id IN (@2, @3, @4))"
     \/ /\ last.arg = "clickhouse"
        /\ filter = ExampleTable["CONCAT('a', b, 'c') LIKE '%x%' AND n BETWEEN 1 AND 5"].filter
        /\ last.sql = "(concat(?, b, ?) LIKE ? AND n BETWEEN ? AND ?)"
  /\ Len(last.params) >= 4


\* ---------------------------------------------------------------------------
\* C28: double-quoted tokens
\* ---------------------------------------------------------------------------

IsDoubleQuoted(s) == Len(s) >= 2 /\ HasPrefix(s, "\"") /\ HasSuffix(s, "\"")

IsDoubleQuotedToken(token) == HasPrefix(token.value, "\"")

IsFieldValue(val) == val.Field # Nil

IsStringValue(val) == val.Literal # Nil /\ val.Literal.String # Nil

DoubleQuotedField == ExampleTable["name = \"hello\""].filter

DoubleQuotedString == ExampleTable["name = \"hello world\""].filter

SingleQuotedString == ExampleTable["name = 'hello'"].filter

WalkInputs ==
  {"BAD(a) = 1 AND id IN (1, 2, 3, 4)",
   "id IN (1, 2, 3, 4) AND BAD(a) = 1",
   "LOWER(BAD(a)) = WORSE(b)",
   "a BETWEEN BAD(1) AND WORSE(2)",
   "a IN (BAD(1), WORSE(2))",
   "((a = 1)) OR BAD(b) = 2",
   "BAD(b) = 2 OR ((a = 1))",
   "a = 1 AND b = c",
   "LOWER(x, 1) = secret",
   "x = (BAD(a) = 1) AND NOW(secret) = 1"}

WalkOptions ==
  {<<>>,
   <<WithMaxDepth(1)>>,
   <<WithMaxINItems(3)>>,
   <<WithFunctions({"lower", "worse"})>>,
   <<WithMaxDepth(1), WithMaxINItems(3), WithFunctions({"lower"})>>}

WalkFields == {<<"a">>, <<"x", "b">>, <<"id">>}

WalkFunctions == {<<"lower">>, <<"bad", "now">>, <<"worse">>}

WalkDrivers == {"postgres", "clickhouse"}

WalkTable ==
  [opts \in WalkOptions |-> [input \in WalkInputs |-> ParserParse(NewParser(opts), input)]]

\* filter, err := parser.Parse(input)
ParseWalk(opts, input) ==
  /\ parser = NewParser(opts)
  /\ filter' = WalkTable[opts][input].filter
  /\ last' = Outcome("Parser.Parse", input, [NoReturn EXCEPT !.err = WalkTable[opts][input].err])
  /\ UNCHANGED <<drivers, validator, parser, driversMu, goroutines>>

NextWalk ==
  \/ \E opts \in WalkOptions : CreateParser(opts)
  \/ \E opts \in WalkOptions, input \in WalkInputs : ParseWalk(opts, input)
  \/ CreateValidator
  \/ \E fields \in WalkFields : AllowFields(fields)
  \/ \E functions \in WalkFunctions : AllowFunctions(functions)
  \/ \E driverName \in WalkDrivers : Compile(driverName)

SpecWalk == Init /\ [][NextWalk]_vars

\* Every violation of the parser's limits in the tree, in the order of a
\* left-to-right depth-first walk: an expression before its terms, the left
\* value of a predicate before its operation, an IN list before its items, a
\* function's name before its arguments.
RECURSIVE ParseViolationsOfExpression(_, _, _), ParseViolationsOfTerms(_, _, _),
          ParseViolationsOfFactors(_, _, _), ParseViolationsOfOperation(_, _),
          ParseViolationsOfValue(_, _), ParseViolationsOfValues(_, _)
ParseViolationsOfValues(p, values) ==
  IF Len(values) = 0 THEN <<>>
  ELSE ParseViolationsOfValue(p, values[1]) \o ParseViolationsOfValues(p, Tail(values))

ParseViolationsOfValue(p, val) ==
  IF val = Nil THEN <<>>
  ELSE IF val.Function # Nil
    THEN (IF p.allowedFuncs # Nil /\ ToUpper(val.Function.Name) \notin p.allowedFuncs.names
            THEN <<"function " \o GoQuote(val.Function.Name) \o " is not allowed">>
            ELSE <<>>)
         \o ParseViolationsOfValues(p, val.Function.Args)
  ELSE IF val.SubExpr # Nil THEN ParseViolationsOfExpression(p, val.SubExpr, 0)
  ELSE <<>>

ParseViolationsOfOperation(p, op) ==
  IF op.Compare # Nil THEN ParseViolationsOfValue(p, op.Compare.Right)
  ELSE IF op.Like # Nil THEN ParseViolationsOfValue(p, op.Like.Pattern)
  ELSE IF op.Between # Nil
    THEN ParseViolationsOfValue(p, op.Between.Lower)
         \o ParseViolationsOfValue(p, op.Between.Upper)
  ELSE IF op.In # Nil
    THEN (IF Len(op.In.Values) > p.maxINItems
            THEN <<"IN expression exceeds maximum of " \o Itoa(p.maxINItems) \o " items">>
            ELSE <<>>)
         \o ParseViolationsOfValues(p, op.In.Values)
  ELSE <<>>

ParseViolationsOfFactors(p, factors, depth) ==
  IF Len(factors) = 0 THEN <<>>
  ELSE (IF factors[1].SubExpr # Nil
          THEN ParseViolationsOfExpression(p, factors[1].SubExpr, depth + 1)
          ELSE ParseViolationsOfValue(p, factors[1].Predicate.Left)
               \o ParseViolationsOfOperation(p, factors[1].Predicate.Operation))
       \o ParseViolationsOfFactors(p, Tail(factors), depth)

ParseViolationsOfTerms(p, terms, depth) ==
  IF Len(terms) = 0 THEN <<>>
  ELSE ParseViolationsOfFactors(p, terms[1].And, depth)
       \o ParseViolationsOfTerms(p, Tail(terms), depth)

ParseViolationsOfExpression(p, expr, depth) ==
  (IF depth > p.maxDepth
     THEN <<"expression depth exceeds maximum of " \o Itoa(p.maxDepth)>>
     ELSE <<>>)
  \o ParseViolationsOfTerms(p, expr.Or, depth)

\* Every violation ToSQL can meet in the tree for the driver d and the
\* validator v, in the order of the same walk.
RECURSIVE BuildViolationsOfExpression(_, _, _), BuildViolationsOfTerms(_, _, _),
          BuildViolationsOfFactors(_, _, _), BuildViolationsOfOperation(_, _, _),
          BuildViolationsOfValue(_, _, _), BuildViolationsOfValues(_, _, _)
BuildViolationsOfValues(d, v, values) ==
  IF Len(values) = 0 THEN <<>>
  ELSE BuildViolationsOfValue(d, v, values[1]) \o BuildViolationsOfValues(d, v, Tail(values))

BuildViolationsOfValue(d, v, val) ==
  IF val.Function # Nil
    THEN (IF v # Nil /\ ~ IsFunctionAllowed(v, val.Function.Name)
            THEN <<"function " \o GoQuote(val.Function.Name) \o " is not allowed">>
          ELSE IF ~ TranslateFunction(d, val.Function.Name, Len(val.Function.Args)).ok
            THEN <<"function " \o GoQuote(val.Function.Name) \o " with "
                   \o Itoa(Len(val.Function.Args)) \o " arguments not supported by driver "
                   \o DriverName(d)>>
          ELSE <<>>)
         \o BuildViolationsOfValues(d, v, val.Function.Args)
  ELSE IF val.Field # Nil
    THEN (IF v # Nil /\ ~ IsFieldAllowed(v, Join(val.Field.Parts, "."))
            THEN <<"field " \o GoQuote(Join(val.Field.Parts, ".")) \o " is not allowed">>
            ELSE <<>>)
  ELSE IF val.SubExpr # Nil THEN BuildViolationsOfExpression(d, v, val.SubExpr)
  ELSE <<>>

BuildViolationsOfOperation(d, v, op) ==
  IF op.Compare # Nil THEN BuildViolationsOfValue(d, v, op.Compare.Right)
  ELSE IF op.Like # Nil THEN BuildViolationsOfValue(d, v, op.Like.Pattern)
  ELSE IF op.Between # Nil
    THEN BuildViolationsOfValue(d, v, op.Between.Lower)
         \o BuildViolationsOfValue(d, v, op.Between.Upper)
  ELSE IF op.In # Nil THEN BuildViolationsOfValues(d, v, op.In.Values)
  ELSE <<>>

BuildViolationsOfFactors(d, v, factors) ==
  IF Len(factors) = 0 THEN <<>>
  ELSE (IF factors[1].SubExpr # Nil
          THEN BuildViolationsOfExpression(d, v, factors[1].SubExpr)
          ELSE BuildViolationsOfValue(d, v, factors[1].Predicate.Left)
               \o BuildViolationsOfOperation(d, v, factors[1].Predicate.Operation))
       \o BuildViolationsOfFactors(d, v, Tail(factors))

BuildViolationsOfTerms(d, v, terms) ==
  IF Len(terms) = 0 THEN <<>>
  ELSE BuildViolationsOfFactors(d, v, terms[1].And) \o BuildViolationsOfTerms(d, v, Tail(terms))

BuildViolationsOfExpression(d, v, expr) == BuildViolationsOfTerms(d, v, expr.Or)

IsTranslateOperatorCall(call) == call.fn = "TranslateOperator"

LikePredicates(f) ==
  {pred \in PredicatesOf(f) : pred.Operation # Nil /\ pred.Operation.Like # Nil}

\* C30: ToSQL asks the driver's TranslateOperator about LIKE, NOT LIKE, ILIKE
\* and NOT ILIKE only.  Comparison, BETWEEN, IN and IS NULL operators are
\* written with their fixed text: for a driver that reports them unsupported
\* or translates them to another text, a filter without a LIKE operation
\* compiles to what it compiles to for the driver it embeds, and the
\* unsupported-operator error comes from a LIKE or ILIKE operation only.
C30_OnlyLikeTranslated ==
  (last.op = "ToSQL" /\ filter # Nil /\ last.arg \in DOMAIN drivers) =>
    LET d == drivers[last.arg]
        asked == SelectSeq(last.calls, IsTranslateOperatorCall)
    IN /\ \A k \in DOMAIN asked : asked[k].arg \in {"LIKE", "NOT LIKE", "ILIKE", "NOT ILIKE"}
       /\ Len(asked) <= Cardinality(LikePredicates(filter))
       /\ LikePredicates(filter) = {} =>
            /\ last.err = Nil
            /\ Returned(last) = Returned(ToSQL(InitialDrivers, filter, Embedded(d), validator))
       /\ last.err # Nil =>
            /\ LikePredicates(filter) # {}
            /\ \E k \in DOMAIN asked :
                 /\ ~ TranslateOperator(d, asked[k].arg).ok
                 /\ last.err = <<"operator " \o asked[k].arg \o " not supported by driver "
                                 \o DriverName(d)>>

\* a > 1 AND b != 2 compiled for the driver that reports != unsupported and
\* translates > to GT: the SQL has the operators as the filter wrote them.
C30_Witness ==
  /\ last.op = "ToSQL"
  /\ last.arg = "strict"
  /\ last.arg \in DOMAIN drivers
  /\ filter = OperatorTable["a > 1 AND b != 2"].filter
  /\ ~ TranslateOperator(drivers[last.arg], "!=").ok
  /\ TranslateOperator(drivers[last.arg], ">").text = "GT"
  /\ last.err = Nil
  /\ last.sql = "(a > ? AND b != ?)"
  /\ ToSQL(drivers, OperatorTable["name LIKE 'a%'"].filter, "nolike", Nil).err
       = <<"operator LIKE not supported by driver nolike">>

====
